---- MODULE Spec2Model ----
(***************************************************************************)
(* A model of the URL risk-scoring engine of the URL-DETECTOR repository:  *)
(* the scheme classifier and risk aggregation of UniversalURLAnalyzer, the *)
(* 30-feature extractor EnhancedFeatureExtraction, the predictor wrapper   *)
(* AdvancedPhishingModel and the /analyze and /analyze/bulk handlers of    *)
(* enhanced_main.py.                                                       *)
(*                                                                         *)
(* Strings are sequences of one-character strings, so that parsing,        *)
(* prefix tests and pattern searches are computed on the characters.       *)
(* urllib.parse and ipaddress are modelled as CPython 3.11 implements      *)
(* them, for ASCII input without tab, CR or LF.                            *)
(***************************************************************************)
EXTENDS Integers, Sequences, FiniteSets, TLC

VARIABLES
    phase,            \* "boot" | "serving" | "failed": the lifespan of the app
    ensemble_model,   \* ml_model.ensemble_model: "None" | "advanced" | "basic"
    scaler_fitted,    \* whether ml_model.scaler has been fitted
    explainer,        \* whether ml_model.explainer is set
    memory_cache,     \* enhanced_main.memory_cache: cache key -> response
    cache_ttl,        \* enhanced_main.cache_ttl: cache key -> expiry time
    now,              \* time.time(), in seconds since the start
    background,       \* background tasks added and not yet run
    response,         \* the outcome of the last request handled
    trace,            \* observation only: what the last analysis did; for the
                      \* cache on its own, the last set_cache of each key
    analyzer,         \* a UniversalURLAnalyzer instance
    extractor,        \* an EnhancedFeatureExtraction instance and its result
    verdict,          \* the inputs and result of the last verdict mapping
    requests,         \* the number of requests handled so far
    semaphore,        \* the value of the asyncio.Semaphore of a bulk request
    tasks,            \* the analyze_single_url tasks of a bulk request
    summary,          \* the BulkAnalysisResponse of the last bulk request
    validation,       \* the input and result of the last validation
    scan_results,     \* rows of the table scan_results, in rowid order
    statistics,       \* rows of the table statistics, by date
    clock,            \* the day and the second of the day (CURRENT_TIMESTAMP)
    returned          \* what the last call made on its own returned

vars == <<phase, ensemble_model, scaler_fitted, explainer, memory_cache,
          cache_ttl, now, background, response, trace, analyzer, extractor,
          verdict, requests, semaphore, tasks, summary, validation,
          scan_results, statistics, clock, returned>>

-----------------------------------------------------------------------------
(* Bounds of the model *)

\* class probabilities are the multiples of 1 / ProbDen
ProbDen == 8

\* the number of requests the API model handles
MaxRequests == 2

\* the number of those requests that draw from the full sets of inputs
MaxWideRequests == 1

\* the number of clock ticks
MaxTicks == 1

\* the number of calls of analyze_url on one analyzer instance
MaxCalls == 2

\* the number of URLs of the longest bulk request
MaxBulkUrls == 7

-----------------------------------------------------------------------------
(* Characters and strings *)

Digits == {"0", "1", "2", "3", "4", "5", "6", "7", "8", "9"}

LowerChars == <<"a", "b", "c", "d", "e", "f", "g", "h", "i", "j", "k", "l", "m",
                "n", "o", "p", "q", "r", "s", "t", "u", "v", "w", "x", "y", "z">>

UpperChars == <<"A", "B", "C", "D", "E", "F", "G", "H", "I", "J", "K", "L", "M",
                "N", "O", "P", "Q", "R", "S", "T", "U", "V", "W", "X", "Y", "Z">>

Range(s) == {s[i] : i \in 1..Len(s)}

LowerAlpha == Range(LowerChars)

UpperAlpha == Range(UpperChars)

Alpha == LowerAlpha \cup UpperAlpha

Alnum == Alpha \cup Digits

HexDigits == Digits \cup {"a", "b", "c", "d", "e", "f", "A", "B", "C", "D", "E", "F"}

\* str.lower() on one character
LowerChar(c) ==
    IF c \in UpperAlpha
    THEN LowerChars[CHOOSE i \in 1..26 : UpperChars[i] = c]
    ELSE c

\* str.lower()
Lower(s) == [i \in 1..Len(s) |-> LowerChar(s[i])]

\* s[i:] with a 1-based first index
From(s, i) == SubSeq(s, i, Len(s))

\* s.startswith(p)
StartsWith(s, p) == Len(s) >= Len(p) /\ SubSeq(s, 1, Len(p)) = p

\* s.endswith(p)
EndsWith(s, p) == Len(s) >= Len(p) /\ From(s, Len(s) - Len(p) + 1) = p

\* whether t occurs in s at 1-based position i
OccursAt(s, t, i) == i >= 1 /\ i + Len(t) - 1 <= Len(s) /\ SubSeq(s, i, i + Len(t) - 1) = t

\* t in s
Contains(s, t) == \E i \in 1..(Len(s) + 1) : OccursAt(s, t, i)

\* s.find(t, start): 1-based position of the first occurrence at or after
\* start, 0 when there is none
FindFrom(s, t, start) ==
    LET hits == {i \in start..(Len(s) + 1) : OccursAt(s, t, i)}
    IN IF hits = {} THEN 0 ELSE CHOOSE i \in hits : \A j \in hits : i <= j

Find(s, t) == FindFrom(s, t, 1)

\* s.rfind(t): 1-based position of the last occurrence, 0 when there is none
RFind(s, t) ==
    LET hits == {i \in 1..(Len(s) + 1) : OccursAt(s, t, i)}
    IN IF hits = {} THEN 0 ELSE CHOOSE i \in hits : \A j \in hits : i >= j

\* s.count(c) for a one-character c
Count(s, c) == Cardinality({i \in 1..Len(s) : s[i] = c})

\* whether s has a run of at least n consecutive characters of class C
HasRun(s, C, n) ==
    \E i \in 1..(Len(s) - n + 1) : \A j \in i..(i + n - 1) : s[j] \in C

\* s.split(c)[0] for a one-character c
BeforeFirst(s, c) ==
    LET i == Find(s, <<c>>) IN IF i = 0 THEN s ELSE SubSeq(s, 1, i - 1)

\* s.partition(c)[2] for a one-character c
AfterFirst(s, c) ==
    LET i == Find(s, <<c>>) IN IF i = 0 THEN <<>> ELSE From(s, i + 1)

\* s.rpartition(c)[2] for a one-character c
AfterLast(s, c) ==
    LET i == RFind(s, <<c>>) IN IF i = 0 THEN s ELSE From(s, i + 1)

\* the pieces of s between the occurrences of the one-character c: s.split(c)
RECURSIVE Split(_, _)
Split(s, c) ==
    LET i == Find(s, <<c>>)
    IN IF i = 0 THEN <<s>> ELSE <<SubSeq(s, 1, i - 1)>> \o Split(From(s, i + 1), c)

\* int(s) for a non-empty string of decimal digits
RECURSIVE DecValue(_)
DecValue(s) ==
    IF Len(s) = 0 THEN 0
    ELSE 10 * DecValue(SubSeq(s, 1, Len(s) - 1))
         + (CHOOSE d \in 0..9 : <<"0", "1", "2", "3", "4", "5", "6", "7", "8", "9">>[d + 1] = s[Len(s)])

IsDigits(s) == Len(s) > 0 /\ \A i \in 1..Len(s) : s[i] \in Digits

-----------------------------------------------------------------------------
(* ipaddress.ip_address *)

\* one octet of an IPv4 literal: 1 to 3 digits, no leading zero, at most 255
IsOctet(s) ==
    /\ IsDigits(s)
    /\ Len(s) <= 3
    /\ (Len(s) > 1 => s[1] # "0")
    /\ DecValue(s) <= 255

IsIPv4(s) ==
    LET parts == Split(s, ".")
    IN Len(parts) = 4 /\ \A i \in 1..4 : IsOctet(parts[i])

\* one group of an IPv6 literal: 1 to 4 hexadecimal digits
IsHextet(s) == Len(s) \in 1..4 /\ \A i \in 1..Len(s) : s[i] \in HexDigits

\* the positions of the empty pieces
Empties(parts) == {i \in 1..Len(parts) : parts[i] = <<>>}

\* the last piece is an IPv4 literal, which counts for two groups
LastIsIPv4(parts) == Len(parts) >= 1 /\ IsIPv4(parts[Len(parts)])

\* where the empty pieces of a single "::" may stand among n pieces
OneGap(n, empties) ==
    \/ \E i \in 2..(n - 1) : empties = {i}
    \/ (n >= 3 /\ empties = {1, 2})
    \/ (n >= 3 /\ empties = {n - 1, n})
    \/ (n = 3 /\ empties = {1, 2, 3})

\* the pieces between the colons make an IPv6 literal: eight groups, or
\* fewer with one "::"
IsIPv6Parts(parts, empties, lastV4, groups) ==
    /\ \A i \in 1..Len(parts) :
          \/ parts[i] = <<>>
          \/ IsHextet(parts[i])
          \/ (i = Len(parts) /\ lastV4)
    /\ \/ (empties = {} /\ groups = 8)
       \/ (OneGap(Len(parts), empties) /\ groups <= 7)

\* the number of 16-bit groups the pieces stand for
Groups(n, empties, lastV4) == (n - Cardinality(empties)) + (IF lastV4 THEN 1 ELSE 0)

IsIPv6Split(parts, empties, lastV4) ==
    IsIPv6Parts(parts, empties, lastV4, Groups(Len(parts), empties, lastV4))

\* An IPv6 literal without a zone id
IsIPv6(s) ==
    /\ Contains(s, <<":">>)
    /\ IsIPv6Split(Split(s, ":"), Empties(Split(s, ":")), LastIsIPv4(Split(s, ":")))

\* whether ipaddress.ip_address(s) returns (it raises ValueError otherwise)
IsIPAddress(s) == IsIPv4(s) \/ IsIPv6(s)

-----------------------------------------------------------------------------
(* urllib.parse.urlparse *)

\* the characters a scheme may contain (urllib.parse.scheme_chars)
SchemeChars == Alnum \cup {"+", "-", "."}

Str_http == <<"h", "t", "t", "p">>

Str_https == <<"h", "t", "t", "p", "s">>

Str_ftp == <<"f", "t", "p">>

Str_ftps == <<"f", "t", "p", "s">>

Str_file == <<"f", "i", "l", "e">>

Str_telnet == <<"t", "e", "l", "n", "e", "t">>

Str_unknown == <<"u", "n", "k", "n", "o", "w", "n">>

\* the schemes whose path may carry ";params" (urllib.parse.uses_params)
UsesParams == {<<>>, Str_ftp, Str_http, Str_https, <<"h", "d", "l">>,
               <<"i", "m", "a", "p">>, <<"s", "f", "t", "p">>, <<"t", "e", "l">>,
               <<"s", "i", "p">>, <<"s", "i", "p", "s">>, <<"m", "m", "s">>,
               <<"r", "t", "s", "p">>, <<"r", "t", "s", "p", "s">>,
               <<"r", "t", "s", "p", "u">>, <<"s", "h", "t", "t", "p">>,
               <<"p", "r", "o", "s", "p", "e", "r", "o">>}

\* url.lstrip(_WHATWG_C0_CONTROL_OR_SPACE)
RECURSIVE LStrip(_)
LStrip(s) == IF Len(s) > 0 /\ s[1] = " " THEN LStrip(Tail(s)) ELSE s

\* the position in url of the first of "/", "?", "#" at or after start,
\* Len(url) + 1 when there is none (_splitnetloc)
NetlocEnd(url, start) ==
    LET hits == {i \in start..Len(url) : url[i] \in {"/", "?", "#"}}
    IN IF hits = {} THEN Len(url) + 1 ELSE CHOOSE i \in hits : \A j \in hits : i <= j

\* _check_bracketed_host raises ValueError
BracketedHostRaises(hostname) ==
    IF Len(hostname) > 0 /\ hostname[1] = "v"
    THEN \* not re.match(r"\Av[a-fA-F0-9]+\..+\Z", hostname)
         LET dot == Find(hostname, <<".">>)
         IN ~ (/\ dot > 2
               /\ \A i \in 2..(dot - 1) : hostname[i] \in HexDigits
               /\ dot < Len(hostname))
    ELSE ~ IsIPv6(hostname)

\* _splitparams(url): <<path, params>>
SplitParams(url) ==
    LET slash == RFind(url, <<"/">>)
        i == IF slash > 0 THEN FindFrom(url, <<";">>, slash) ELSE Find(url, <<";">>)
    IN IF i = 0 THEN <<url, <<>>>> ELSE <<SubSeq(url, 1, i - 1), From(url, i + 1)>>

\* urlsplit: the URL has a scheme that ends before position i, the position
\* of its first ":"
HasScheme(url, i) ==
    /\ i > 1
    /\ url[1] \in Alpha
    /\ \A j \in 1..(i - 1) : url[j] \in SchemeChars

\* urlsplit: the scheme, lowercased, "" when there is none
SchemeOf(url, i) == IF HasScheme(url, i) THEN Lower(SubSeq(url, 1, i - 1)) ELSE <<>>

\* urlsplit: what follows the scheme
AfterScheme(url, i) == IF HasScheme(url, i) THEN From(url, i + 1) ELSE url

\* urlsplit: the netloc of what follows the scheme
NetlocOf(url) ==
    IF StartsWith(url, <<"/", "/">>) THEN SubSeq(url, 3, NetlocEnd(url, 3) - 1) ELSE <<>>

\* urlsplit: what follows the netloc
AfterNetloc(url) ==
    IF StartsWith(url, <<"/", "/">>) THEN From(url, NetlocEnd(url, 3)) ELSE url

\* urlsplit raises ValueError("Invalid IPv6 URL") or _check_bracketed_host does
NetlocRaises(netloc) ==
    \/ Contains(netloc, <<"[">>) # Contains(netloc, <<"]">>)
    \/ /\ Contains(netloc, <<"[">>)
       /\ BracketedHostRaises(BeforeFirst(AfterFirst(netloc, "["), "]"))

\* urlparse: the path and the params of what precedes the query
PathAndParams(scheme, url) ==
    IF scheme \in UsesParams /\ Contains(url, <<";">>)
    THEN SplitParams(url) ELSE <<url, <<>>>>

\* urlparse from the scheme, the netloc and what follows the netloc
Components(scheme, netloc, url) ==
    [raised |-> NetlocRaises(netloc),
     scheme |-> scheme,
     netloc |-> netloc,
     path |-> PathAndParams(scheme, BeforeFirst(BeforeFirst(url, "#"), "?"))[1],
     params |-> PathAndParams(scheme, BeforeFirst(BeforeFirst(url, "#"), "?"))[2],
     query |-> AfterFirst(BeforeFirst(url, "#"), "?"),
     fragment |-> AfterFirst(url, "#")]

\* urlparse from the scheme and what follows the scheme
SplitNetloc(scheme, url) == Components(scheme, NetlocOf(url), AfterNetloc(url))

\* urlparse of a URL without leading spaces whose first ":" is at position i
SplitScheme(url, i) == SplitNetloc(SchemeOf(url, i), AfterScheme(url, i))

\* urlparse(url): the six components, or raised = TRUE for a ValueError
urlparse(u) == SplitScheme(LStrip(u), Find(LStrip(u), <<":">>))

\* the port text of a netloc, "none" when there is none (_hostinfo)
PortText(netloc) ==
    LET hostinfo == AfterLast(netloc, "@")
        port == IF Contains(hostinfo, <<"[">>)
                THEN AfterFirst(AfterFirst(AfterFirst(hostinfo, "["), "]"), ":")
                ELSE AfterFirst(hostinfo, ":")
    IN port

\* int(port) raises or the number is out of range
PortTextRaises(port) == port # <<>> /\ (~ IsDigits(port) \/ DecValue(port) > 65535)

\* parsed.port raises ValueError
PortRaises(netloc) == PortTextRaises(PortText(netloc))

PortTextValue(port) == IF port = <<>> THEN 0 ELSE DecValue(port)

\* parsed.port when it does not raise: the number, 0 for None and for port 0
\* (the callers only test its truth and its membership in a list)
PortValue(netloc) == PortTextValue(PortText(netloc))

-----------------------------------------------------------------------------
(* universal_url_analyzer.py *)

URL_SCHEMES == <<
    [name |-> <<"h", "t", "t", "p">>, risk_level |-> "medium", category |-> "web"],
    [name |-> <<"h", "t", "t", "p", "s">>, risk_level |-> "low", category |-> "web"],
    [name |-> <<"f", "t", "p">>, risk_level |-> "high", category |-> "file_transfer"],
    [name |-> <<"f", "t", "p", "s">>, risk_level |-> "medium", category |-> "file_transfer"],
    [name |-> <<"s", "f", "t", "p">>, risk_level |-> "low", category |-> "file_transfer"],
    [name |-> <<"f", "i", "l", "e">>, risk_level |-> "high", category |-> "local_file"],
    [name |-> <<"d", "a", "t", "a">>, risk_level |-> "medium", category |-> "data_url"],
    [name |-> <<"m", "a", "i", "l", "t", "o">>, risk_level |-> "medium", category |-> "email"],
    [name |-> <<"l", "d", "a", "p">>, risk_level |-> "high", category |-> "directory"],
    [name |-> <<"l", "d", "a", "p", "s">>, risk_level |-> "medium", category |-> "directory"],
    [name |-> <<"s", "s", "h">>, risk_level |-> "high", category |-> "remote_access"],
    [name |-> <<"t", "e", "l", "n", "e", "t">>, risk_level |-> "high", category |-> "remote_access"],
    [name |-> <<"r", "d", "p">>, risk_level |-> "high", category |-> "remote_access"],
    [name |-> <<"v", "n", "c">>, risk_level |-> "high", category |-> "remote_access"],
    [name |-> <<"j", "d", "b", "c">>, risk_level |-> "high", category |-> "database"],
    [name |-> <<"m", "y", "s", "q", "l">>, risk_level |-> "high", category |-> "database"],
    [name |-> <<"p", "o", "s", "t", "g", "r", "e", "s", "q", "l">>, risk_level |-> "high", category |-> "database"],
    [name |-> <<"i", "r", "c">>, risk_level |-> "medium", category |-> "messaging"],
    [name |-> <<"x", "m", "p", "p">>, risk_level |-> "medium", category |-> "messaging"],
    [name |-> <<"m", "a", "g", "n", "e", "t">>, risk_level |-> "high", category |-> "p2p"],
    [name |-> <<"t", "o", "r", "r", "e", "n", "t">>, risk_level |-> "high", category |-> "p2p"],
    [name |-> <<"b", "i", "t", "c", "o", "i", "n">>, risk_level |-> "medium", category |-> "cryptocurrency"],
    [name |-> <<"e", "t", "h", "e", "r", "e", "u", "m">>, risk_level |-> "medium", category |-> "cryptocurrency"],
    [name |-> <<"s", "m", "s">>, risk_level |-> "medium", category |-> "mobile"],
    [name |-> <<"t", "e", "l">>, risk_level |-> "low", category |-> "mobile"],
    [name |-> <<"a", "p", "p">>, risk_level |-> "medium", category |-> "mobile"],
    [name |-> <<"u", "n", "k", "n", "o", "w", "n">>, risk_level |-> "high", category |-> "unknown"]
>>

SchemeKeys == {URL_SCHEMES[i].name : i \in 1..Len(URL_SCHEMES)}

\* URL_SCHEMES[key] for a key of the table
SchemeEntry(key) ==
    LET e == URL_SCHEMES[CHOOSE i \in 1..Len(URL_SCHEMES) : URL_SCHEMES[i].name = key]
    IN [risk_level |-> e.risk_level, category |-> e.category]

\* a variant of SchemeInfo: the entry of http as the default
SchemeInfoWebDefault(scheme) ==
    IF scheme \in SchemeKeys THEN SchemeEntry(scheme) ELSE SchemeEntry(Str_http)

\* self.URL_SCHEMES.get(self.scheme, self.URL_SCHEMES['unknown'])
SchemeInfo(scheme) ==
    IF scheme \in SchemeKeys THEN SchemeEntry(scheme) ELSE SchemeEntry(Str_unknown)

\* UniversalURLAnalyzer.__init__: self.scheme from the parsed URL
InitScheme(p) ==
    IF p.raised THEN Str_unknown
    ELSE IF p.scheme # <<>> THEN Lower(p.scheme) ELSE Str_unknown

\* UniversalURLAnalyzer.__init__: self.scheme
AnalyzerScheme(url) == InitScheme(urlparse(url))

\* the longest URL is_valid_url accepts
UrlMaxLen == 2000

\* a variant of IsValidParsed: the length limit taken exclusively
IsValidParsedExclusive(url, p) ==
    /\ url # <<>>
    /\ Len(url) < UrlMaxLen
    /\ ~ p.raised
    /\ p.scheme # <<>>
    /\ (p.netloc # <<>> \/ p.path # <<>> \/ p.query # <<>>)

\* is_valid_url, p being urlparse(url)
IsValidParsed(url, p) ==
    /\ url # <<>>
    /\ Len(url) <= UrlMaxLen
    /\ ~ p.raised
    /\ p.scheme # <<>>
    /\ (p.netloc # <<>> \/ p.path # <<>> \/ p.query # <<>>)

\* is_valid_url
is_valid_url(url) == IsValidParsed(url, urlparse(url))

\* pattern.match(url) for the anchored, case-insensitive prefix patterns
MatchPrefix(url, prefixes) == \E p \in prefixes : StartsWith(Lower(url), p)

\* detect_url_category: the first of URL_SCHEME_PATTERNS that matches
detect_url_category(url) ==
    IF MatchPrefix(url, {Str_http \o <<":", "/", "/">>, Str_https \o <<":", "/", "/">>})
    THEN "web"
    ELSE IF MatchPrefix(url, {Str_ftp \o <<":", "/", "/">>, Str_ftps \o <<":", "/", "/">>})
    THEN "ftp"
    ELSE IF MatchPrefix(url, {Str_file \o <<":", "/", "/">>})
    THEN "file"
    ELSE IF MatchPrefix(url, {<<"d", "a", "t", "a", ":">>})
    THEN "data"
    ELSE IF MatchPrefix(url, {<<"m", "a", "i", "l", "t", "o", ":">>})
    THEN "mailto"
    ELSE IF MatchPrefix(url, {<<"s", "s", "h", ":", "/", "/">>,
                              Str_telnet \o <<":", "/", "/">>,
                              <<"r", "d", "p", ":", "/", "/">>,
                              <<"v", "n", "c", ":", "/", "/">>})
    THEN "remote"
    ELSE IF MatchPrefix(url, {<<"m", "a", "g", "n", "e", "t", ":">>,
                              <<"t", "o", "r", "r", "e", "n", "t", ":">>})
    THEN "p2p"
    ELSE IF MatchPrefix(url, {<<"b", "i", "t", "c", "o", "i", "n", ":">>,
                              <<"e", "t", "h", "e", "r", "e", "u", "m", ":">>})
    THEN "crypto"
    ELSE "unknown"

\* the numeric offset of a base risk level (scheme_risks)
SchemeRisk(risk_level) ==
    CASE risk_level = "high" -> 40
      [] risk_level = "medium" -> 20
      [] risk_level = "low" -> 5
      [] OTHER -> 50

\* the ports _analyze_security_risks takes as standard
StandardPorts == {80, 443, 21, 22, 25, 110, 143, 993, 995}

\* UniversalURLAnalyzer.__init__, p being urlparse(url)
AnalyzerOf(url, p) ==
    [original_url |-> url,
     parsed_url |-> p,     \* raised = TRUE stands for None
     scheme |-> InitScheme(p),
     analysis_result |-> [present |-> FALSE]]

\* UniversalURLAnalyzer.__init__
NewAnalyzer(url) == AnalyzerOf(url, urlparse(url))

\* _analyze_basic_structure
AnalyzeBasicStructure(a) ==
    IF a.parsed_url.raised
    THEN [valid |-> FALSE, length |-> 0, has_subdomain |-> FALSE, has_port |-> FALSE]
    ELSE [valid |-> TRUE,
          length |-> Len(a.original_url),
          has_subdomain |-> Len(Split(a.parsed_url.netloc, ".")) > 2,
          has_port |-> Contains(a.parsed_url.netloc, <<":">>)]

\* _analyze_by_scheme from the entry of the table
Classified(scheme, scheme_info) ==
    [scheme |-> scheme,
     category |-> scheme_info.category,
     base_risk_level |-> scheme_info.risk_level]

\* _analyze_by_scheme: the classification; the scheme-specific details it
\* adds under its own try/except feed no score and are left out
AnalyzeByScheme(a) == Classified(a.scheme, SchemeInfo(a.scheme))

\* _analyze_security_risks raises: parsed_url.port is read outside any try
AnalyzeSecurityRisksRaises(a) ==
    ~ a.parsed_url.raised /\ PortRaises(a.parsed_url.netloc)

\* the smaller of two numbers
Min(x, y) == IF x < y THEN x ELSE y

\* _analyze_security_risks: the dictionary from the risks and their sum
SecurityAnalysis(risks, risk_score) ==
    [risks |-> risks,
     risk_score |-> Min(risk_score, 100),
     risk_level |-> IF risk_score > 60 THEN "high"
                    ELSE IF risk_score > 30 THEN "medium" ELSE "low"]

\* _analyze_security_risks from what its four tests found, n being the
\* length of the URL
SecurityRisks(usesIp, n, highScheme, oddPort) ==
    SecurityAnalysis(
        (IF usesIp THEN <<"uses_ip_address">> ELSE <<>>)
        \o (IF n > 200 THEN <<"very_long_url">>
            ELSE IF n > 100 THEN <<"long_url">> ELSE <<>>)
        \o (IF highScheme THEN <<"high_risk_scheme">> ELSE <<>>)
        \o (IF oddPort THEN <<"non_standard_port">> ELSE <<>>),
        (IF usesIp THEN 30 ELSE 0)
        + (IF n > 200 THEN 20 ELSE IF n > 100 THEN 10 ELSE 0)
        + (IF highScheme THEN 40 ELSE 0)
        + (IF oddPort THEN 15 ELSE 0))

\* ipaddress.ip_address(self.parsed_url.netloc.split(':')[0]) returns
UsesIp(p) == ~ p.raised /\ p.netloc # <<>> /\ IsIPAddress(BeforeFirst(p.netloc, ":"))

\* port and port not in [80, 443, 21, 22, 25, 110, 143, 993, 995]
IsOddPort(port) == port # 0 /\ port \notin StandardPorts

\* self.parsed_url and self.parsed_url.port and the port is not standard
OddPort(p) == ~ p.raised /\ IsOddPort(PortValue(p.netloc))

\* _analyze_security_risks
AnalyzeSecurityRisks(a) ==
    SecurityRisks(UsesIp(a.parsed_url), Len(a.original_url),
                  a.scheme \in {Str_file, Str_ftp, Str_telnet}, OddPort(a.parsed_url))

\* [0-9]+\.[0-9]+\.[0-9]+\.[0-9]+ matches the whole of s
IsDottedQuad(parts) == Len(parts) = 4 /\ \A p \in 1..4 : IsDigits(parts[p])

\* re.search(SUSPICIOUS_PATTERNS[k], url, re.IGNORECASE), k = 1..8, s being
\* the URL in lower case
PatternMatches(k, s) ==
    CASE k = 1 ->  \* [0-9]+\.[0-9]+\.[0-9]+\.[0-9]+
           \E i \in 1..Len(s) : \E j \in i..Len(s) :
               IsDottedQuad(Split(SubSeq(s, i, j), "."))
      [] k = 2 ->  \* [a-zA-Z0-9]+\.tk|\.ml|\.ga|\.cf
           \/ \E i \in 1..Len(s) :
                 s[i] \in Alnum /\ OccursAt(s, <<".", "t", "k">>, i + 1)
           \/ Contains(s, <<".", "m", "l">>)
           \/ Contains(s, <<".", "g", "a">>)
           \/ Contains(s, <<".", "c", "f">>)
      [] k = 3 ->  \* bit\.ly|tinyurl|short
           \/ Contains(s, <<"b", "i", "t", ".", "l", "y">>)
           \/ Contains(s, <<"t", "i", "n", "y", "u", "r", "l">>)
           \/ Contains(s, <<"s", "h", "o", "r", "t">>)
      [] k = 4 ->  \* phish|scam|hack|malware
           \/ Contains(s, <<"p", "h", "i", "s", "h">>)
           \/ Contains(s, <<"s", "c", "a", "m">>)
           \/ Contains(s, <<"h", "a", "c", "k">>)
           \/ Contains(s, <<"m", "a", "l", "w", "a", "r", "e">>)
      [] k = 5 ->  \* [0-9]{5,}
           HasRun(s, Digits, 5)
      [] k = 6 ->  \* login|signin|verify|account|secure|update
           \/ Contains(s, <<"l", "o", "g", "i", "n">>)
           \/ Contains(s, <<"s", "i", "g", "n", "i", "n">>)
           \/ Contains(s, <<"v", "e", "r", "i", "f", "y">>)
           \/ Contains(s, <<"a", "c", "c", "o", "u", "n", "t">>)
           \/ Contains(s, <<"s", "e", "c", "u", "r", "e">>)
           \/ Contains(s, <<"u", "p", "d", "a", "t", "e">>)
      [] k = 7 ->  \* \-{2,}|\_{3,}
           HasRun(s, {"-"}, 2) \/ HasRun(s, {"_"}, 3)
      [] k = 8 ->  \* [a-zA-Z0-9]{20,}
           HasRun(s, Alnum, 20)

\* the number of SUSPICIOUS_PATTERNS
NumPatterns == 8

\* the indices from k on of the patterns that match, in order
RECURSIVE MatchedFrom(_, _)
MatchedFrom(k, s) ==
    IF k > NumPatterns THEN <<>>
    ELSE (IF PatternMatches(k, s) THEN <<k>> ELSE <<>>) \o MatchedFrom(k + 1, s)

\* _analyze_patterns: the dictionary from the matches
PatternAnalysis(pattern_matches) ==
    [suspicious_patterns |-> pattern_matches,
     pattern_count |-> Len(pattern_matches),
     high_risk_patterns |-> Len(pattern_matches) > 2]

\* _analyze_patterns
AnalyzePatterns(a) == PatternAnalysis(MatchedFrom(1, Lower(a.original_url)))

\* _calculate_risk_score: it reads self.analysis_result as it is when called
CalculateRiskScore(a) ==
    Min(SchemeRisk(SchemeInfo(a.scheme).risk_level)
        + (IF a.analysis_result.present
           THEN a.analysis_result.security_analysis.risk_score ELSE 0)
        + (IF a.analysis_result.present
           THEN a.analysis_result.pattern_analysis.pattern_count * 10 ELSE 0),
        100)

\* _generate_recommendations: it reads self.analysis_result as it is when called
GenerateRecommendations(a) ==
    LET risks == IF a.analysis_result.present
                 THEN a.analysis_result.security_analysis.risks ELSE <<>>
        recs == (IF a.scheme = Str_http THEN <<"use_https">> ELSE <<>>)
                \o (IF a.scheme \in {Str_ftp, Str_telnet} THEN <<"unencrypted">> ELSE <<>>)
                \o (IF a.scheme = Str_file THEN <<"local_file">> ELSE <<>>)
                \o (IF "uses_ip_address" \in Range(risks) THEN <<"verify_ip">> ELSE <<>>)
                \o (IF Len(a.original_url) > 200 THEN <<"very_long">> ELSE <<>>)
                \o (IF a.scheme = Str_unknown THEN <<"unknown_protocol">> ELSE <<>>)
    IN IF recs = <<>> THEN <<"standard">> ELSE recs

\* UniversalURLAnalyzer.analyze_url raises
AnalyzerRaises(a) == AnalyzeSecurityRisksRaises(a)

\* UniversalURLAnalyzer.analyze_url when it does not raise: the dictionary it
\* assigns to self.analysis_result and returns.  overall_risk_score and
\* recommendations are computed while the dictionary is being built, before
\* the assignment.
AnalyzerResult(a) ==
    [present |-> TRUE,
     url |-> a.original_url,
     scheme |-> a.scheme,
     basic_analysis |-> AnalyzeBasicStructure(a),
     scheme_analysis |-> AnalyzeByScheme(a),
     security_analysis |-> AnalyzeSecurityRisks(a),
     pattern_analysis |-> AnalyzePatterns(a),
     overall_risk_score |-> CalculateRiskScore(a),
     recommendations |-> GenerateRecommendations(a)]

-----------------------------------------------------------------------------
(* enhanced_feature_extractor.py *)

\* _short_url: shortening_services
ShorteningServices == {
    <<"b", "i", "t", ".", "l", "y">>, <<"g", "o", "o", ".", "g", "l">>,
    <<"s", "h", "o", "r", "t", "e", ".", "s", "t">>,
    <<"g", "o", "2", "l", ".", "i", "n", "k">>, <<"x", ".", "c", "o">>,
    <<"o", "w", ".", "l", "y">>, <<"t", ".", "c", "o">>,
    <<"t", "i", "n", "y", "u", "r", "l">>, <<"t", "r", ".", "i", "m">>,
    <<"i", "s", ".", "g", "d">>, <<"c", "l", "i", ".", "g", "s">>,
    <<"y", "f", "r", "o", "g", ".", "c", "o", "m">>,
    <<"m", "i", "g", "r", "e", ".", "m", "e">>, <<"f", "f", ".", "i", "m">>,
    <<"t", "i", "n", "y", ".", "c", "c">>, <<"u", "r", "l", "4", ".", "e", "u">>,
    <<"t", "w", "i", "t", ".", "a", "c">>, <<"s", "u", ".", "p", "r">>,
    <<"t", "w", "u", "r", "l", ".", "n", "l">>,
    <<"s", "n", "i", "p", "u", "r", "l", ".", "c", "o", "m">>,
    <<"s", "h", "o", "r", "t", ".", "t", "o">>,
    <<"b", "u", "d", "u", "r", "l", ".", "c", "o", "m">>,
    <<"p", "i", "n", "g", ".", "f", "m">>, <<"p", "o", "s", "t", ".", "l", "y">>,
    <<"j", "u", "s", "t", ".", "a", "s">>,
    <<"b", "k", "i", "t", "e", ".", "c", "o", "m">>,
    <<"s", "n", "i", "p", "r", ".", "c", "o", "m">>,
    <<"f", "i", "c", ".", "k", "r">>, <<"l", "o", "o", "p", "t", ".", "u", "s">>,
    <<"d", "o", "i", "o", "p", ".", "c", "o", "m">>,
    <<"s", "h", "o", "r", "t", ".", "i", "e">>, <<"k", "l", ".", "a", "m">>,
    <<"w", "p", ".", "m", "e">>,
    <<"r", "u", "b", "y", "u", "r", "l", ".", "c", "o", "m">>,
    <<"o", "m", ".", "l", "y">>, <<"t", "o", ".", "l", "y">>,
    <<"b", "i", "t", ".", "d", "o">>, <<"l", "n", "k", "d", ".", "i", "n">>,
    <<"d", "b", ".", "t", "t">>, <<"q", "r", ".", "a", "e">>,
    <<"a", "d", "f", ".", "l", "y">>,
    <<"b", "i", "t", "l", "y", ".", "c", "o", "m">>,
    <<"c", "u", "r", ".", "l", "v">>,
    <<"t", "i", "n", "y", "u", "r", "l", ".", "c", "o", "m">>,
    <<"i", "t", "y", ".", "i", "m">>, <<"q", ".", "g", "s">>,
    <<"p", "o", ".", "s", "t">>, <<"b", "c", ".", "v", "c">>,
    <<"t", "w", "i", "t", "t", "h", "i", "s", ".", "c", "o", "m">>,
    <<"u", ".", "t", "o">>, <<"j", ".", "m", "p">>,
    <<"b", "u", "z", "u", "r", "l", ".", "c", "o", "m">>,
    <<"c", "u", "t", "t", ".", "u", "s">>, <<"u", ".", "b", "b">>,
    <<"y", "o", "u", "r", "l", "s", ".", "o", "r", "g">>,
    <<"p", "r", "e", "t", "t", "y", "l", "i", "n", "k", "p", "r", "o", ".", "c", "o", "m">>,
    <<"s", "c", "r", "n", "c", "h", ".", "m", "e">>,
    <<"f", "i", "l", "o", "o", "p", "s", ".", "i", "n", "f", "o">>,
    <<"v", "z", "t", "u", "r", "l", ".", "c", "o", "m">>,
    <<"q", "r", ".", "n", "e", "t">>, <<"1", "u", "r", "l", ".", "c", "o", "m">>,
    <<"t", "w", "e", "e", "z", ".", "m", "e">>, <<"v", ".", "g", "d">>,
    <<"7", "a", "x", ".", "l", "i", "n", "k">>}

\* _stats_report: suspicious_hosts
SuspiciousHosts == {
    <<"a", "t", ".", "u", "a">>, <<"u", "s", "a", ".", "c", "c">>,
    <<"b", "a", "l", "t", "a", "z", "a", "r", "p", "r", "e", "s", "e", "n", "t", "e", "s", ".", "c", "o", "m", ".", "b", "r">>,
    <<"p", "e", ".", "h", "u">>, <<"e", "s", "y", ".", "e", "s">>,
    <<"h", "o", "l", ".", "e", "s">>,
    <<"s", "w", "e", "d", "d", "y", ".", "c", "o", "m">>,
    <<"m", "y", "j", "i", "n", "o", ".", "r", "u">>, <<"9", "6", ".", "l", "t">>}

\* a variant of feature_names: the names of positions 7 and 8 exchanged
feature_names_exchanged == <<
    "using_ip", "long_url", "short_url", "symbol", "redirecting",
    "prefix_suffix", "https", "sub_domains", "domain_reg_len", "favicon",
    "non_std_port", "https_domain_url", "request_url", "anchor_url",
    "links_in_script_tags", "server_form_handler", "info_email",
    "abnormal_url", "website_forwarding", "status_bar_cust",
    "disable_right_click", "using_popup_window", "iframe_redirection",
    "age_of_domain", "dns_recording", "website_traffic", "page_rank",
    "google_index", "links_pointing_to_page", "stats_report">>

\* the names of the 30 positions (EnhancedFeatureExtraction.feature_names)
feature_names == <<
    "using_ip", "long_url", "short_url", "symbol", "redirecting",
    "prefix_suffix", "sub_domains", "https", "domain_reg_len", "favicon",
    "non_std_port", "https_domain_url", "request_url", "anchor_url",
    "links_in_script_tags", "server_form_handler", "info_email",
    "abnormal_url", "website_forwarding", "status_bar_cust",
    "disable_right_click", "using_popup_window", "iframe_redirection",
    "age_of_domain", "dns_recording", "website_traffic", "page_rank",
    "google_index", "links_pointing_to_page", "stats_report">>

\* EnhancedFeatureExtraction.__init__ and what follows it, p being
\* urlparse(url)
ExtractorOf(url, p, check_real_time, page, whois, dns) ==
    [url |-> url,
     check_real_time |-> check_real_time,
     parsed_url |-> p,                       \* raised = TRUE stands for None
     domain |-> IF p.raised THEN <<>> ELSE p.netloc,
     page |-> page,
     whois_info |-> IF check_real_time THEN whois ELSE [present |-> FALSE],
     dns_info |-> check_real_time /\ dns]

\* EnhancedFeatureExtraction.__init__ followed by _fetch_web_content and
\* _gather_domain_info.  page is what the fetch produced, whois and dns what
\* the lookups produced; a failed fetch or lookup leaves the initial value,
\* and no lookup runs unless check_real_time.
NewExtractor(url, check_real_time, page, whois, dns) ==
    ExtractorOf(url, urlparse(url), check_real_time, page, whois, dns)

\* "src.startswith('http') and self.domain not in src" for a URL of another
\* host: the empty string is in every string
External(x, n) == IF x.domain = <<>> THEN 0 ELSE n

\* the threshold ladder of _request_url, _anchor_url and _links_in_script_tags
\* on percentage = part / total * 100
Ladder(part, total, low, high) ==
    IF part * 100 < low * total THEN 1
    ELSE IF part * 100 < high * total THEN 0
    ELSE -1

using_ip(x) == IF IsIPAddress(x.domain) THEN -1 ELSE 1

long_url(x) ==
    LET length == Len(x.url)
    IN IF length < 54 THEN 1 ELSE IF length <= 75 THEN 0 ELSE -1

short_url(x) == IF \E service \in ShorteningServices : Contains(x.domain, service) THEN -1 ELSE 1

symbol(x) == IF Contains(x.url, <<"@">>) THEN -1 ELSE 1

\* url.rfind('//') > 6, counting from 0
redirecting(x) == IF RFind(x.url, <<"/", "/">>) - 1 > 6 THEN -1 ELSE 1

prefix_suffix(x) == IF Contains(x.domain, <<"-">>) THEN -1 ELSE 1

\* a variant of sub_domains: the number of dots itself
sub_domains_count(x) == Count(x.domain, ".")

sub_domains(x) ==
    LET dots == Count(x.domain, ".")
    IN IF dots = 1 THEN 1 ELSE IF dots = 2 THEN 0 ELSE -1

https(x) == IF StartsWith(x.url, Str_https \o <<":", "/", "/">>) THEN 1 ELSE -1

domain_reg_len(x) ==
    IF x.whois_info.present /\ x.whois_info.expiration_date = "far" THEN 1 ELSE -1

favicon(x) ==
    IF x.page.soup
    THEN IF x.page.favicon = "external" /\ x.domain # <<>> THEN -1 ELSE 1
    ELSE 0

\* _non_std_port raises: parsed_url is None, or parsed_url.port raises
non_std_port_raises(x) == x.parsed_url.raised \/ PortRaises(x.parsed_url.netloc)

\* port and port not in [80, 443]
IsNonStdPort(port) == port # 0 /\ port \notin {80, 443}

non_std_port(x) == IF IsNonStdPort(PortValue(x.parsed_url.netloc)) THEN -1 ELSE 1

https_domain_url(x) == IF Contains(x.domain, Str_https) THEN -1 ELSE 1

request_url(x) ==
    IF ~ x.page.soup \/ x.page.media_total = 0 THEN 1
    ELSE Ladder(External(x, x.page.media_external), x.page.media_total, 22, 61)

anchor_url(x) ==
    IF ~ x.page.soup \/ x.page.anchors = 0 THEN 1
    ELSE Ladder(x.page.anchors_void + External(x, x.page.anchors_external),
                x.page.anchors, 31, 67)

links_in_script_tags(x) ==
    IF ~ x.page.soup THEN 1
    ELSE IF x.page.scripts = 0 THEN 1
    ELSE Ladder(External(x, x.page.scripts_external), x.page.scripts, 17, 81)

server_form_handler(x) ==
    IF ~ x.page.soup THEN 1
    ELSE IF x.page.form = "blank" \/ (x.page.form = "external" /\ x.domain # <<>>)
    THEN -1 ELSE 1

info_email(x) ==
    IF ~ x.page.content THEN 1
    ELSE IF x.page.email_other_domain THEN -1 ELSE 1

abnormal_url(x) ==
    IF x.whois_info.present /\ x.whois_info.domain_name_in_url THEN 1 ELSE -1

website_forwarding(x) == 0

status_bar_cust(x) ==
    IF ~ x.page.content THEN 1 ELSE IF x.page.status_bar THEN -1 ELSE 1

disable_right_click(x) ==
    IF ~ x.page.content THEN 1 ELSE IF x.page.right_click THEN -1 ELSE 1

using_popup_window(x) ==
    IF ~ x.page.content THEN 1 ELSE IF x.page.popup THEN -1 ELSE 1

iframe_redirection(x) ==
    IF ~ x.page.soup THEN 1 ELSE IF x.page.iframe_borderless THEN -1 ELSE 1

age_of_domain(x) ==
    IF x.whois_info.present /\ x.whois_info.creation_date = "old" THEN 1 ELSE -1

dns_recording(x) == IF x.dns_info THEN 1 ELSE -1

website_traffic(x) == 0

page_rank(x) == 0

google_index(x) == 0

links_pointing_to_page(x) ==
    IF ~ x.page.soup THEN 1 ELSE IF x.page.anchors > 0 THEN 1 ELSE -1

stats_report(x) == IF \E host \in SuspiciousHosts : Contains(x.domain, host) THEN -1 ELSE 1

\* the list extract_all_features builds, position by position; position 11
\* is the one check that can raise
CheckAt(i, x) ==
    CASE i = 1 -> using_ip(x)
      [] i = 2 -> long_url(x)
      [] i = 3 -> short_url(x)
      [] i = 4 -> symbol(x)
      [] i = 5 -> redirecting(x)
      [] i = 6 -> prefix_suffix(x)
      [] i = 7 -> sub_domains(x)
      [] i = 8 -> https(x)
      [] i = 9 -> domain_reg_len(x)
      [] i = 10 -> favicon(x)
      [] i = 11 -> non_std_port(x)
      [] i = 12 -> https_domain_url(x)
      [] i = 13 -> request_url(x)
      [] i = 14 -> anchor_url(x)
      [] i = 15 -> links_in_script_tags(x)
      [] i = 16 -> server_form_handler(x)
      [] i = 17 -> info_email(x)
      [] i = 18 -> abnormal_url(x)
      [] i = 19 -> website_forwarding(x)
      [] i = 20 -> status_bar_cust(x)
      [] i = 21 -> disable_right_click(x)
      [] i = 22 -> using_popup_window(x)
      [] i = 23 -> iframe_redirection(x)
      [] i = 24 -> age_of_domain(x)
      [] i = 25 -> dns_recording(x)
      [] i = 26 -> website_traffic(x)
      [] i = 27 -> page_rank(x)
      [] i = 28 -> google_index(x)
      [] i = 29 -> links_pointing_to_page(x)
      [] i = 30 -> stats_report(x)

\* the number of features
NumFeatures == 30

\* what extract_all_features returns when a check raises: [1] * 30
DefaultFeatures == [i \in 1..NumFeatures |-> 1]

\* extract_all_features: one try around the whole list
extract_all_features(x) ==
    IF non_std_port_raises(x)
    THEN DefaultFeatures
    ELSE [i \in 1..NumFeatures |-> CheckAt(i, x)]


-----------------------------------------------------------------------------
(* Inputs: the URL strings, fetched pages and lookup results the model draws from *)

\* https://a.co
UrlHttps == <<"h", "t", "t", "p", "s", ":", "/", "/", "a", ".", "c", "o">>

\* http://a.co/login
UrlHttpLogin == <<"h", "t", "t", "p", ":", "/", "/", "a", ".", "c", "o", "/", "l", "o", "g", "i", "n">>

\* HTTPS://A.CO
UrlUpperHttps == <<"H", "T", "T", "P", "S", ":", "/", "/", "A", ".", "C", "O">>

\* http:a.co
UrlNoSlashes == <<"h", "t", "t", "p", ":", "a", ".", "c", "o">>

\* http://1.2.3.4:8080/
UrlIpPort == <<"h", "t", "t", "p", ":", "/", "/", "1", ".", "2", ".", "3", ".", "4", ":", "8", "0", "8", "0", "/">>

\* http://a.co:99999/
UrlBadPort == <<"h", "t", "t", "p", ":", "/", "/", "a", ".", "c", "o", ":", "9", "9", "9", "9", "9", "/">>

\* http://[a
UrlBadBracket == <<"h", "t", "t", "p", ":", "/", "/", "[", "a">>

\* ftp://1.2.3.4/f
UrlFtpIp == <<"f", "t", "p", ":", "/", "/", "1", ".", "2", ".", "3", ".", "4", "/", "f">>

\* mailto:a@b.co
UrlMailto == <<"m", "a", "i", "l", "t", "o", ":", "a", "@", "b", ".", "c", "o">>

\* file:///x.exe
UrlFile == <<"f", "i", "l", "e", ":", "/", "/", "/", "x", ".", "e", "x", "e">>

\* tel:5
UrlTel == <<"t", "e", "l", ":", "5">>

\* zz:x
UrlCustom == <<"z", "z", ":", "x">>

\* not a url
UrlNoScheme == <<"n", "o", "t", " ", "a", " ", "u", "r", "l">>

\* (the empty string)
UrlEmpty == <<>>

\* http://localhost/
UrlLocalhost ==
    <<"h", "t", "t", "p", ":", "/", "/", "l", "o", "c", "a", "l", "h", "o", "s", "t", "/">>

\* http://paypal-secure-login.tk/verify
UrlPaypal ==
    <<"h", "t", "t", "p", ":", "/", "/", "p", "a", "y", "p", "a", "l", "-",
      "s", "e", "c", "u", "r", "e", "-", "l", "o", "g", "i", "n", ".", "t", "k",
      "/", "v", "e", "r", "i", "f", "y">>

\* n filler characters
Fill(n) == [i \in 1..n |-> "a"]

\* ftp://1.2.3.4/f followed by 90 letters: 105 characters
UrlFtpLong == UrlFtpIp \o Fill(90)

\* the strings handed to the analyzer and the extractor on their own
Urls == {UrlHttps, UrlHttpLogin, UrlUpperHttps, UrlNoSlashes, UrlIpPort, UrlBadPort,
         UrlBadBracket, UrlFtpIp, UrlFtpLong, UrlMailto, UrlFile, UrlTel, UrlCustom,
         UrlNoScheme, UrlEmpty, UrlPaypal, UrlLocalhost}

\* http://a.co/ followed by letters up to the length limit of is_valid_url
UrlLongest ==
    <<"h", "t", "t", "p", ":", "/", "/", "a", ".", "c", "o", "/">> \o Fill(UrlMaxLen - 12)

\* one character more
UrlTooLong == Append(UrlLongest, "a")

\* the strings handed to the validators on their own
ValidationUrls == Urls \cup {UrlLongest, UrlTooLong}

\* the strings sent to the API
RequestUrls == {UrlHttps, UrlHttpLogin, UrlNoSlashes, UrlBadPort, UrlFtpIp, UrlTel,
                UrlCustom, UrlNoScheme, UrlPaypal}

\* the fetch failed: no content, no soup
NoPage ==
    [soup |-> FALSE, content |-> FALSE, favicon |-> "none",
     media_total |-> 0, media_external |-> 0,
     anchors |-> 0, anchors_void |-> 0, anchors_external |-> 0,
     scripts |-> 0, scripts_external |-> 0, form |-> "none",
     email_other_domain |-> FALSE, status_bar |-> FALSE, right_click |-> FALSE,
     popup |-> FALSE, iframe_borderless |-> FALSE]

\* an empty body: a soup without tags
EmptyPage == [NoPage EXCEPT !.soup = TRUE]

\* a page whose resources are all its own
OwnPage ==
    [NoPage EXCEPT !.soup = TRUE, !.content = TRUE, !.favicon = "same",
                   !.media_total = 2, !.anchors = 2, !.scripts = 1, !.form = "same"]

\* a page with a third of its resources elsewhere and a form without action
MixedPage ==
    [NoPage EXCEPT !.soup = TRUE, !.content = TRUE, !.favicon = "same",
                   !.media_total = 3, !.media_external = 1,
                   !.anchors = 3, !.anchors_void = 1,
                   !.scripts = 2, !.scripts_external = 1, !.form = "blank"]

\* a page with everything elsewhere and every script pattern
HostilePage ==
    [soup |-> TRUE, content |-> TRUE, favicon |-> "external",
     media_total |-> 2, media_external |-> 2,
     anchors |-> 2, anchors_void |-> 1, anchors_external |-> 1,
     scripts |-> 1, scripts_external |-> 1, form |-> "external",
     email_other_domain |-> TRUE, status_bar |-> TRUE, right_click |-> TRUE,
     popup |-> TRUE, iframe_borderless |-> TRUE]

Pages == {NoPage, EmptyPage, OwnPage, MixedPage, HostilePage}

\* the WHOIS lookup failed or did not run: whois_info stays {}
NoWhois ==
    [present |-> FALSE, expiration_date |-> "missing", creation_date |-> "missing",
     domain_name_in_url |-> FALSE]

\* expiration_date: "far" is a datetime more than 365 days ahead, "near" one
\* that is not; creation_date: "old" is a datetime more than 180 days back,
\* "young" one that is not; "missing" is no key or no datetime
Whois == {NoWhois,
          [present |-> TRUE, expiration_date |-> "far", creation_date |-> "old",
           domain_name_in_url |-> TRUE],
          [present |-> TRUE, expiration_date |-> "near", creation_date |-> "young",
           domain_name_in_url |-> FALSE],
          [present |-> TRUE, expiration_date |-> "missing", creation_date |-> "missing",
           domain_name_in_url |-> TRUE]}

-----------------------------------------------------------------------------
(* advanced_ml_model.py *)

\* AdvancedPhishingModel.feature_names as __init__ sets it
model_feature_names == <<
    "using_ip", "long_url", "short_url", "symbol", "redirecting",
    "prefix_suffix", "sub_domains", "https", "domain_reg_len", "favicon",
    "non_std_port", "https_domain_url", "request_url", "anchor_url",
    "links_in_script_tags", "server_form_handler", "info_email",
    "abnormal_url", "website_forwarding", "status_bar_cust",
    "disable_right_click", "using_popup_window", "iframe_redirection",
    "age_of_domain", "dns_recording", "website_traffic", "page_rank",
    "google_index", "links_pointing_to_page", "stats_report">>

\* AdvancedPhishingModel.predict raises: no model ("Model not trained yet"),
\* or a scaler that was never fitted (StandardScaler.transform)
PredictRaises(model, fitted) == model = "None" \/ ~ fitted

\* max(probabilities[0]) for the two class probabilities k / ProbDen and
\* (ProbDen - k) / ProbDen
MaxProbability(k) ==
    [num |-> IF k >= ProbDen - k THEN k ELSE ProbDen - k, den |-> ProbDen]

\* a variant of explain_prediction: a missing explainer raises
explain_prediction_raising(has_explainer, fitted, shap_ok) ==
    IF ~ has_explainer THEN "raised"
    ELSE IF ~ fitted \/ ~ shap_ok THEN "error"
    ELSE "contributions"

\* AdvancedPhishingModel.explain_prediction: "error" for a result that holds
\* the key "error", "contributions" for the top contributions
explain_prediction(has_explainer, fitted, shap_ok) ==
    IF ~ has_explainer THEN "error"
    ELSE IF ~ fitted \/ ~ shap_ok THEN "error"
    ELSE "contributions"

-----------------------------------------------------------------------------
(* enhanced_main.py *)

\* the time to live analyze_url gives a cached response, in seconds
CacheTtl == 3600

\* the largest risk score
MaxRisk == 100

\* the risk_score of the response analyze_single_url_internal returns on error
ErrorRisk == 50

\* a variant of get_cache_key: the key made of the option alone
get_cache_key_option(url, deep_analysis) ==
    IF deep_analysis THEN <<"T", "r", "u", "e">> ELSE <<"F", "a", "l", "s", "e">>

\* get_cache_key: the string f"{url}:{deep_analysis}" that is hashed; the
\* MD5 digest is taken to be one-to-one on these strings
get_cache_key(url, deep_analysis) ==
    url \o <<":">> \o (IF deep_analysis THEN <<"T", "r", "u", "e">>
                       ELSE <<"F", "a", "l", "s", "e">>)

\* a float p / q
Frac(p, q) == [num |-> p, den |-> q]

\* the risks r in 0..100 for which int((1 - (1.0 - r / 100.0)) * 100) is
\* r - 1 and not r in IEEE double arithmetic
ComplementTruncated == {8, 9, 10, 11, 18, 19, 20, 21, 22, 41, 42, 43, 44, 45, 57, 58}

\* a variant of IntPercent: round(confidence * 100), halves upward
IntPercentRounded(c) == (c.num * 200 + c.den) \div (2 * c.den)

\* int(confidence * 100): exact for the probabilities k / ProbDen; for
\* r / 100.0 with r > 70 the product truncates to r
IntPercent(c) ==
    IF c.den = MaxRisk THEN c.num ELSE (c.num * 100) \div c.den

\* int((1 - confidence) * 100): exact for the probabilities k / ProbDen; for
\* 1.0 - r / 100.0 and the literals 0.5 and 0.6 as IEEE doubles give it
IntComplement(c) ==
    IF c.den = MaxRisk
    THEN LET r == MaxRisk - c.num
         IN IF r \in ComplementTruncated THEN r - 1 ELSE r
    ELSE ((c.den - c.num) * 100) \div c.den

\* ml_risk = int(confidence * 100) if prediction == "phishing"
\*           else int((1 - confidence) * 100)
MlRisk(prediction, confidence) ==
    IF prediction = "phishing" THEN IntPercent(confidence) ELSE IntComplement(confidence)

\* a variant of RiskScore: the sum of the two risks in place of their maximum
RiskScoreSum(base_risk, ml_risk) == base_risk + ml_risk

\* risk_score = max(base_risk, ml_risk)
RiskScore(base_risk, ml_risk) == IF base_risk > ml_risk THEN base_risk ELSE ml_risk

\* a variant of PredictionOf: the label +1 read as the phishing class
PredictionOfPositive(label) == IF label = 1 THEN "phishing" ELSE "safe"

\* prediction = "phishing" if predictions[0] == -1 else "safe"
PredictionOf(label) == IF label = -1 THEN "phishing" ELSE "safe"

\* a variant of NonWebVerdict: the thresholds taken inclusively
NonWebVerdictInclusive(universal_risk) ==
    IF universal_risk >= 70
    THEN [prediction |-> "phishing", confidence |-> Frac(universal_risk, MaxRisk)]
    ELSE IF universal_risk >= 40
    THEN [prediction |-> "suspicious", confidence |-> Frac(60, MaxRisk)]
    ELSE [prediction |-> "safe", confidence |-> Frac(MaxRisk - universal_risk, MaxRisk)]

\* analyze_url: the verdict of a non-web URL from its universal risk
NonWebVerdict(universal_risk) ==
    IF universal_risk > 70
    THEN [prediction |-> "phishing", confidence |-> Frac(universal_risk, MaxRisk)]
    ELSE IF universal_risk > 40
    THEN [prediction |-> "suspicious", confidence |-> Frac(60, MaxRisk)]
    ELSE [prediction |-> "safe", confidence |-> Frac(MaxRisk - universal_risk, MaxRisk)]

\* analyze_single_url_internal: the verdict of a non-web URL
BulkNonWebVerdict(universal_risk) ==
    IF universal_risk > 70
    THEN [prediction |-> "phishing", confidence |-> Frac(universal_risk, MaxRisk)]
    ELSE IF universal_risk > 40
    THEN [prediction |-> "suspicious", confidence |-> Frac(60, MaxRisk)]
    ELSE [prediction |-> "safe", confidence |-> Frac(MaxRisk - universal_risk, MaxRisk)]

\* URLAnalysisRequest.validate_url and BulkURLRequest.validate_urls accept url
ValidRequestUrl(url) == Len(url) <= UrlMaxLen /\ is_valid_url(url)

\* what the handlers compute from the URL alone, a being
\* UniversalURLAnalyzer(url_str): the validators' answer,
\* detect_url_category(url_str), and whether a.analyze_url() raises or the
\* dictionary it returns
AnalysisOf(url, a) ==
    [valid |-> ValidRequestUrl(url),
     url_category |-> detect_url_category(url),
     raises |-> AnalyzerRaises(a),
     universal_analysis |-> IF AnalyzerRaises(a) THEN a.analysis_result
                            ELSE AnalyzerResult(a)]

\* AnalysisOf for each URL of the corpus
Analyzed == [url \in Urls |-> AnalysisOf(url, NewAnalyzer(url))]

\* what an environment supplies to one analysis: the fetched page, the
\* lookups, the label and class probability the predictor returns when it
\* returns, and whether the SHAP computation succeeds
Envs(pages, whoises, lookups, shaps) ==
    [page : pages, whois : whoises, dns : lookups,
     label : {-1, 1}, k : 0..ProbDen, shap_ok : shaps]

\* the prediction and confidence of a web URL: from the predictor when it
\* returned, the initial values when it raised
WebVerdict(predicted, label, k) ==
    IF predicted
    THEN [prediction |-> PredictionOf(label), confidence |-> MaxProbability(k)]
    ELSE [prediction |-> "safe", confidence |-> Frac(50, MaxRisk)]

\* the verdict from its parts: v is the prediction and confidence, an the
\* analysis of the URL alone
Outcome(url, an, predicted, label, v, features, ml_explanation, explained, deep_analysis, check_real_time) ==
    [url |-> url,
     prediction |-> v.prediction,
     confidence |-> v.confidence,
     risk_score |-> RiskScore(an.universal_analysis.overall_risk_score,
                              MlRisk(v.prediction, v.confidence)),
     features |-> features,
     ml_explanation |-> ml_explanation,
     \* explanation: universal_analysis and url_category, when deep_analysis
     explained |-> explained,
     suspicious_patterns |->
         IF explained THEN an.universal_analysis.pattern_analysis.suspicious_patterns
         ELSE <<>>,
     scheme |-> IF explained THEN an.universal_analysis.scheme ELSE <<>>,
     category |-> IF explained THEN an.universal_analysis.scheme_analysis.category
                  ELSE "none",
     explained_category |-> IF explained THEN an.url_category ELSE "none",
     \* observations
     url_category |-> an.url_category,
     scheme_category |-> an.universal_analysis.scheme_analysis.category,
     ml_attempted |-> an.url_category = "web",
     ml_returned |-> predicted,
     ml_label |-> IF predicted THEN label ELSE 0,
     universal_risk |-> an.universal_analysis.overall_risk_score,
     ml_risk |-> MlRisk(v.prediction, v.confidence),
     deep_analysis |-> deep_analysis,
     check_real_time |-> check_real_time]

\* The body of the try block of analyze_url and of analyze_single_url_internal
\* after the analyzer has returned: the verdict and what led to it.
\* bulk is TRUE for analyze_single_url_internal, an is Analyzed[url], and
\* predicted tells that the URL is a web URL and ml_model.predict returned.
Analysis(bulk, fitted, has_explainer, url, an, predicted, deep_analysis, check_real_time, env) ==
    Outcome(url, an, predicted, env.label,
            IF an.url_category = "web" THEN WebVerdict(predicted, env.label, env.k)
            ELSE IF bulk THEN BulkNonWebVerdict(an.universal_analysis.overall_risk_score)
            ELSE NonWebVerdict(an.universal_analysis.overall_risk_score),
            \* dict(zip(ml_model.feature_names, features)) if features and deep_analysis
            IF an.url_category = "web" /\ deep_analysis /\ ~ bulk
            THEN extract_all_features(
                     NewExtractor(url, check_real_time, env.page, env.whois, env.dns))
            ELSE <<>>,
            IF predicted /\ deep_analysis /\ ~ bulk
            THEN explain_prediction(has_explainer, fitted, env.shap_ok)
            ELSE "none",
            deep_analysis /\ ~ bulk, deep_analysis, check_real_time)

Verdict(bulk, model, fitted, has_explainer, url, an, deep_analysis, check_real_time, env) ==
    Analysis(bulk, fitted, has_explainer, url, an,
             an.url_category = "web" /\ ~ PredictRaises(model, fitted),
             deep_analysis, check_real_time, env)

\* the options of a request
Options(deep_analysis, check_real_time) ==
    [deep_analysis |-> deep_analysis, check_real_time |-> check_real_time]

\* the fields of a verdict that make the URLAnalysisResponse; options is an
\* observation, not a field: the options of the request it was built for
ResponseOf(status, v) ==
    [status |-> status, url |-> v.url, prediction |-> v.prediction,
     confidence |-> v.confidence, risk_score |-> v.risk_score,
     features |-> v.features, ml_explanation |-> v.ml_explanation,
     explained |-> v.explained, suspicious_patterns |-> v.suspicious_patterns,
     scheme |-> v.scheme, category |-> v.category,
     explained_category |-> v.explained_category,
     options |-> Options(v.deep_analysis, v.check_real_time)]

\* no response yet
NoResponse ==
    [status |-> "none", url |-> <<>>, prediction |-> "none", confidence |-> Frac(0, MaxRisk),
     risk_score |-> 0, features |-> <<>>, ml_explanation |-> "none",
     explained |-> FALSE, suspicious_patterns |-> <<>>, scheme |-> <<>>,
     category |-> "none", explained_category |-> "none",
     options |-> Options(FALSE, FALSE)]

\* the response of a request that produced no verdict: status is "rejected"
\* (validation error) or "http500" (HTTPException 500)
Failure(status, url) == [NoResponse EXCEPT !.status = status, !.url = url]

\* the default response analyze_single_url_internal returns on an exception
BulkError(url) ==
    [NoResponse EXCEPT !.status = "ok", !.url = url, !.prediction = "error",
                       !.risk_score = ErrorRisk]

\* what the last request did
Trace(endpoint, outcome, url, v) ==
    [endpoint |-> endpoint, outcome |-> outcome, url |-> url,
     url_category |-> v.url_category, scheme_category |-> v.scheme_category,
     ml_attempted |-> v.ml_attempted, ml_returned |-> v.ml_returned,
     ml_label |-> v.ml_label, universal_risk |-> v.universal_risk,
     ml_risk |-> v.ml_risk,
     options |-> Options(v.deep_analysis, v.check_real_time)]

\* the observations of a request that made no analysis
NoAnalysis ==
    [url_category |-> "none", scheme_category |-> "none", ml_attempted |-> FALSE,
     ml_returned |-> FALSE, ml_label |-> 0, universal_risk |-> 0, ml_risk |-> 0,
     deep_analysis |-> FALSE, check_real_time |-> FALSE]

NoTrace == Trace("none", "none", <<>>, NoAnalysis)

\* a variant of CacheHit: the entry still served at its expiry time
CacheHitInclusive(key) ==
    key \in DOMAIN memory_cache /\ key \in DOMAIN cache_ttl /\ now <= cache_ttl[key]

\* get_cache(key) returns a value: the key is cached and has not expired
CacheHit(key) ==
    key \in DOMAIN memory_cache /\ key \in DOMAIN cache_ttl /\ now < cache_ttl[key]

\* f without the key k: dict.pop(k, None)
Pop(f, k) == [x \in (DOMAIN f) \ {k} |-> f[x]]

\* f with f[k] = v: dict assignment
Put(f, k, v) == [x \in (DOMAIN f) \cup {k} |-> IF x = k THEN v ELSE f[x]]

\* the pages and lookups the requests to the API meet
ApiPages == {NoPage, HostilePage}


\* analyses that are not in use in a specification
Idle == [state |-> "idle"]

\* no call made on its own yet
NoReturn == [op |-> "none"]

\* the first second of the first day
Midnight == [day |-> 0, second |-> 0]

\* no bulk request answered yet
NoSummary == [total |-> 0, analyzed |-> 0, phishing |-> 0, safe |-> 0, errors |-> 0,
              results |-> <<>>]

\* lifespan: the application starts.  pickle/advanced_model.pkl may load
\* (with or without a SHAP explainer), may fail to load (load_model logs and
\* returns False, which lifespan ignores), or may be missing, and then
\* pickle/model.pkl is assigned to ensemble_model beside the scaler that was
\* never fitted, or opening it raises and the application does not start.
Lifespan ==
    /\ phase = "boot"
    /\ \E outcome \in {"advanced", "advanced_no_shap", "load_failed", "basic", "no_pickle"} :
         /\ phase' = IF outcome = "no_pickle" THEN "failed" ELSE "serving"
         /\ ensemble_model' = CASE outcome \in {"advanced", "advanced_no_shap"} -> "advanced"
                                [] outcome = "basic" -> "basic"
                                [] OTHER -> "None"
         /\ scaler_fitted' = (outcome \in {"advanced", "advanced_no_shap"})
         /\ explainer' = (outcome = "advanced")
    /\ UNCHANGED <<semaphore, tasks, summary, validation>>
    /\ UNCHANGED <<scan_results, statistics, clock, returned>>
    /\ UNCHANGED <<memory_cache, cache_ttl, now, background, response, trace,
                   analyzer, extractor, verdict, requests>>

\* POST /analyze with the in-memory cache: cache_key is the key of the
\* request, an is Analyzed[url] and v the verdict the analysis comes to
Analyze(url, cache_key, an, v) ==
    /\ phase = "serving"
    /\ requests < MaxRequests
    /\ requests' = requests + 1
    /\ IF ~ an.valid
       THEN /\ response' = Failure("rejected", url)
            /\ trace' = Trace("single", "rejected", url, NoAnalysis)
            /\ UNCHANGED <<memory_cache, cache_ttl, background>>
       ELSE IF CacheHit(cache_key)
       THEN /\ response' = memory_cache[cache_key]
            /\ trace' = Trace("single", "cache_hit", url,
                               [NoAnalysis EXCEPT
                                   !.deep_analysis = v.deep_analysis,
                                   !.check_real_time = v.check_real_time])
            /\ UNCHANGED <<memory_cache, cache_ttl, background>>
       ELSE /\ memory_cache' = IF cache_key \in DOMAIN memory_cache
                               THEN Pop(memory_cache, cache_key) ELSE memory_cache
            /\ cache_ttl' = IF cache_key \in DOMAIN memory_cache
                            THEN Pop(cache_ttl, cache_key) ELSE cache_ttl
            /\ IF an.raises
               THEN /\ response' = Failure("http500", url)
                    /\ trace' = Trace("single", "http500", url, NoAnalysis)
                    /\ UNCHANGED background
               ELSE /\ response' = ResponseOf("ok", v)
                    /\ trace' = Trace("single", "analyzed", url, v)
                    /\ background' = Append(background,
                                            [key |-> cache_key, value |-> response'])
    /\ UNCHANGED <<semaphore, tasks, summary, validation>>
    /\ UNCHANGED <<scan_results, statistics, clock, returned>>
    /\ UNCHANGED <<phase, ensemble_model, scaler_fitted, explainer, now,
                   analyzer, extractor, verdict>>

AnalyzeUrl(url, deep_analysis, check_real_time, env) ==
    Analyze(url, get_cache_key(url, deep_analysis), Analyzed[url],
            Verdict(FALSE, ensemble_model, scaler_fitted, explainer, url, Analyzed[url],
                    deep_analysis, check_real_time, env))

\* analyze_single_url_internal: one URL of POST /analyze/bulk; an is
\* Analyzed[url] and v the verdict the analysis comes to
AnalyzeInternal(url, an, v) ==
    /\ phase = "serving"
    /\ requests < MaxRequests
    /\ requests' = requests + 1
    /\ IF ~ an.valid
       THEN /\ response' = Failure("rejected", url)
            /\ trace' = Trace("bulk", "rejected", url, NoAnalysis)
       ELSE IF an.raises
       THEN /\ response' = BulkError(url)
            /\ trace' = Trace("bulk", "error", url, NoAnalysis)
       ELSE /\ response' = ResponseOf("ok", v)
            /\ trace' = Trace("bulk", "analyzed", url, v)
    /\ UNCHANGED <<semaphore, tasks, summary, validation>>
    /\ UNCHANGED <<scan_results, statistics, clock, returned>>
    /\ UNCHANGED <<phase, ensemble_model, scaler_fitted, explainer, memory_cache,
                   cache_ttl, now, background, analyzer, extractor, verdict>>

AnalyzeSingleUrlInternal(url, deep_analysis, env) ==
    AnalyzeInternal(url, Analyzed[url],
                    Verdict(TRUE, ensemble_model, scaler_fitted, explainer, url, Analyzed[url],
                            deep_analysis, FALSE, env))

\* the background task set_cache(cache_key, response.json(), 3600) runs
SetCache ==
    /\ background # <<>>
    /\ LET task == Head(background)
       IN /\ memory_cache' = Put(memory_cache, task.key, task.value)
          /\ cache_ttl' = Put(cache_ttl, task.key, now + CacheTtl)
    /\ background' = Tail(background)
    /\ UNCHANGED <<semaphore, tasks, summary, validation>>
    /\ UNCHANGED <<scan_results, statistics, clock, returned>>
    /\ UNCHANGED <<phase, ensemble_model, scaler_fitted, explainer, now, response,
                   trace, analyzer, extractor, verdict, requests>>

\* time.time() advances by the time to live
Tick ==
    /\ now < MaxTicks * CacheTtl
    /\ now' = now + CacheTtl
    /\ UNCHANGED <<semaphore, tasks, summary, validation>>
    /\ UNCHANGED <<scan_results, statistics, clock, returned>>
    /\ UNCHANGED <<phase, ensemble_model, scaler_fitted, explainer, memory_cache,
                   cache_ttl, background, response, trace, analyzer, extractor,
                   verdict, requests>>

\* the environment of an analysis that consults none
NoEnv == [page |-> NoPage, whois |-> NoWhois, dns |-> FALSE, label |-> 1, k |-> 0,
          shap_ok |-> FALSE]

\* the environments a request for url may meet: only the analysis of a URL
\* that passes the gate of the ML branch fetches, looks up and predicts
EnvsFor(url, pages, shaps) ==
    IF detect_url_category(url) = "web"
    THEN Envs(pages, {NoWhois}, {FALSE}, shaps)
    ELSE {NoEnv}

\* a request to POST /analyze
Single ==
    /\ requests < MaxWideRequests
    /\ \E url \in RequestUrls, deep_analysis \in BOOLEAN, check_real_time \in BOOLEAN :
          \E env \in EnvsFor(url, ApiPages, BOOLEAN) :
              AnalyzeUrl(url, deep_analysis, check_real_time, env)

\* a URL of a request to POST /analyze/bulk
Bulk ==
    /\ requests < MaxWideRequests
    /\ \E url \in RequestUrls, deep_analysis \in BOOLEAN :
          \E env \in EnvsFor(url, {NoPage}, {FALSE}) :
              AnalyzeSingleUrlInternal(url, deep_analysis, env)

Init ==
    /\ phase = "boot"
    /\ ensemble_model = "None"
    /\ scaler_fitted = FALSE
    /\ explainer = FALSE
    /\ memory_cache = <<>>
    /\ cache_ttl = <<>>
    /\ now = 0
    /\ background = <<>>
    /\ response = NoResponse
    /\ trace = NoTrace
    /\ analyzer = Idle
    /\ extractor = Idle
    /\ verdict = Idle
    /\ requests = 0
    /\ semaphore = 0
    /\ tasks = <<>>
    /\ summary = NoSummary
    /\ validation = Idle
    /\ scan_results = <<>>
    /\ statistics = <<>>
    /\ clock = Midnight
    /\ returned = NoReturn

Next == Lifespan \/ Single \/ Bulk \/ SetCache \/ Tick

Spec == Init /\ [][Next]_vars

-----------------------------------------------------------------------------
(* Repeated requests to POST /analyze: the cache between two requests *)

\* the URLs requested repeatedly
ProbeUrls == {UrlHttps, UrlHttpLogin, UrlFtpIp}

\* the environments a repeated request for a web URL meets: a page, a WHOIS
\* record and DNS answers that the lookups find when they run
ProbeEnvs ==
    [page : {HostilePage},
     whois : {[present |-> TRUE, expiration_date |-> "far", creation_date |-> "old",
               domain_name_in_url |-> TRUE]},
     dns : {TRUE}, label : {-1, 1}, k : {ProbDen - 1}, shap_ok : {TRUE}]

\* a request to POST /analyze for one of the probe URLs
Probe ==
    \E url \in ProbeUrls, deep_analysis \in BOOLEAN, check_real_time \in BOOLEAN :
        \E env \in (IF detect_url_category(url) = "web" THEN ProbeEnvs ELSE {NoEnv}) :
            AnalyzeUrl(url, deep_analysis, check_real_time, env)

NextCache == Lifespan \/ Probe \/ SetCache \/ Tick

SpecCache == Init /\ [][NextCache]_vars

-----------------------------------------------------------------------------
(* POST /analyze/bulk: the tasks of one request under the semaphore *)

\* the initial value of the semaphore of analyze_bulk_urls
SemaphoreLimit == 5

\* the most URLs validate_urls accepts
BulkLimit == 100

\* a variant of CanAcquire: acquire never waits
CanAcquireAlways(value) == TRUE

\* asyncio.Semaphore.acquire returns without waiting
CanAcquire(value) == value > 0

\* BulkURLRequest.validate_urls accepts the list
ValidBulkRequest(urls) ==
    Len(urls) <= BulkLimit /\ \A i \in 1..Len(urls) : is_valid_url(urls[i])

\* the lists of URLs sent to POST /analyze/bulk: web URLs only, up to the
\* bound; web and non-web URLs with one whose analysis raises; one with an
\* invalid entry
BulkRequests ==
    {[i \in 1..n |-> UrlHttps] : n \in 1..MaxBulkUrls}
    \cup {<<UrlHttps, UrlTel, UrlBadPort, UrlHttpLogin, UrlFtpIp>>,
          <<UrlHttps, UrlNoScheme>>}

\* what the bulk analysis of a web URL meets: no page (the fetch fails), no
\* lookups, and either label from the predictor
BulkEnvs ==
    [page : {NoPage}, whois : {NoWhois}, dns : {FALSE}, label : {-1, 1},
     k : {ProbDen}, shap_ok : {FALSE}]

\* the task analyze_single_url(url) as created for asyncio.gather
NewTask(url, deep_analysis) ==
    [url |-> url, deep_analysis |-> deep_analysis, pc |-> "created",
     result |-> NoResponse]

\* analyze_single_url_internal suspends: only the page fetch of the feature
\* extractor awaits anything, and it is reached for a web URL whose
\* universal analysis returned
Suspends(an) == an.url_category = "web" /\ ~ an.raises

\* the tasks between "async with semaphore" and its exit
InFlight == {i \in 1..Len(tasks) : tasks[i].pc = "running"}

\* analyze_bulk_urls up to asyncio.gather: the validated request, the
\* semaphore and one task for each URL
AnalyzeBulkUrls(urls, deep_analysis) ==
    /\ phase = "serving"
    /\ tasks = <<>>
    /\ requests < MaxWideRequests
    /\ requests' = requests + 1
    /\ IF ValidBulkRequest(urls)
       THEN /\ semaphore' = SemaphoreLimit
            /\ tasks' = [i \in 1..Len(urls) |-> NewTask(urls[i], deep_analysis)]
            /\ trace' = Trace("bulk", "started", <<>>, NoAnalysis)
       ELSE /\ trace' = Trace("bulk", "rejected", <<>>, NoAnalysis)
            /\ UNCHANGED <<semaphore, tasks>>
    /\ UNCHANGED <<scan_results, statistics, clock, returned>>
    /\ UNCHANGED <<phase, ensemble_model, scaler_fitted, explainer, memory_cache,
                   cache_ttl, now, background, response, analyzer, extractor,
                   verdict, summary, validation>>

\* the result of analyze_single_url_internal for the task t
TaskResult(t, an, env) ==
    IF an.raises THEN BulkError(t.url)
    ELSE ResponseOf("ok", Verdict(TRUE, ensemble_model, scaler_fitted, explainer,
                                  t.url, an, t.deep_analysis, FALSE, env))

\* the task i enters "async with semaphore".  A task that never suspends
\* runs to its end and releases the semaphore before any other task runs.
Enter(i, an) ==
    /\ tasks # <<>>
    /\ tasks[i].pc = "created"
    /\ CanAcquire(semaphore)
    /\ IF Suspends(an)
       THEN /\ semaphore' = semaphore - 1
            /\ tasks' = [tasks EXCEPT ![i].pc = "running"]
       ELSE /\ semaphore' = semaphore
            /\ tasks' = [tasks EXCEPT ![i].pc = "done",
                                      ![i].result = TaskResult(tasks[i], an, NoEnv)]
    /\ UNCHANGED <<scan_results, statistics, clock, returned>>
    /\ UNCHANGED <<phase, ensemble_model, scaler_fitted, explainer, memory_cache,
                   cache_ttl, now, background, response, trace, analyzer, extractor,
                   verdict, requests, summary, validation>>

\* the fetch of the task i is over: the analysis runs to its end and the
\* semaphore is released
Leave(i, an, env) ==
    /\ tasks # <<>>
    /\ tasks[i].pc = "running"
    /\ semaphore' = semaphore + 1
    /\ tasks' = [tasks EXCEPT ![i].pc = "done",
                              ![i].result = TaskResult(tasks[i], an, env)]
    /\ UNCHANGED <<scan_results, statistics, clock, returned>>
    /\ UNCHANGED <<phase, ensemble_model, scaler_fitted, explainer, memory_cache,
                   cache_ttl, now, background, response, trace, analyzer, extractor,
                   verdict, requests, summary, validation>>

\* the results of asyncio.gather that are URLAnalysisResponse objects
ValidResults == SelectSeq(tasks, LAMBDA t : t.result.status = "ok")

\* the number of results with the prediction p
Predicted(results, p) == Cardinality({i \in 1..Len(results) : results[i].result.prediction = p})

\* the BulkAnalysisResponse from the results
Summarise(results) ==
    [total |-> Len(tasks),
     analyzed |-> Len(results),
     phishing |-> Predicted(results, "phishing"),
     safe |-> Predicted(results, "safe"),
     errors |-> Len(tasks) - Len(results),
     results |-> [i \in 1..Len(results) |-> results[i].result.prediction]]

\* asyncio.gather returned: analyze_bulk_urls builds its response
Gather ==
    /\ tasks # <<>>
    /\ \A i \in 1..Len(tasks) : tasks[i].pc = "done"
    /\ summary' = Summarise(ValidResults)
    /\ tasks' = <<>>
    /\ semaphore' = 0
    /\ trace' = Trace("bulk", "gathered", <<>>, NoAnalysis)
    /\ UNCHANGED <<scan_results, statistics, clock, returned>>
    /\ UNCHANGED <<phase, ensemble_model, scaler_fitted, explainer, memory_cache,
                   cache_ttl, now, background, response, analyzer, extractor,
                   verdict, requests, validation>>

\* the application serves with the advanced model loaded and no explainer
InitBulk ==
    /\ phase = "serving"
    /\ ensemble_model = "advanced"
    /\ scaler_fitted = TRUE
    /\ explainer = FALSE
    /\ memory_cache = <<>>
    /\ cache_ttl = <<>>
    /\ now = 0
    /\ background = <<>>
    /\ response = NoResponse
    /\ trace = NoTrace
    /\ analyzer = Idle
    /\ extractor = Idle
    /\ verdict = Idle
    /\ requests = 0
    /\ semaphore = 0
    /\ tasks = <<>>
    /\ summary = NoSummary
    /\ validation = Idle
    /\ scan_results = <<>>
    /\ statistics = <<>>
    /\ clock = Midnight
    /\ returned = NoReturn

NextBulk ==
    \/ \E urls \in BulkRequests, deep_analysis \in BOOLEAN :
           AnalyzeBulkUrls(urls, deep_analysis)
    \/ \E i \in 1..Len(tasks) : Enter(i, Analyzed[tasks[i].url])
    \/ \E i \in 1..Len(tasks), env \in BulkEnvs : Leave(i, Analyzed[tasks[i].url], env)
    \/ Gather

SpecBulk == InitBulk /\ [][NextBulk]_vars

-----------------------------------------------------------------------------
(* The analyzer, the feature extractor and the non-web verdict on their own *)

\* no classification made yet
NoClassification == [scheme |-> <<>>, category |-> "none", base_risk_level |-> "none"]

\* UniversalURLAnalyzer(url): a new instance
Construct(url) ==
    /\ analyzer = Idle /\ extractor = Idle /\ verdict = Idle /\ validation = Idle
    /\ returned = NoReturn
    /\ analyzer' = [state |-> "live", self |-> NewAnalyzer(url), calls |-> 0,
                    raised |-> FALSE, scheme_analysis |-> NoClassification]
    /\ UNCHANGED <<semaphore, tasks, summary, validation>>
    /\ UNCHANGED <<scan_results, statistics, clock, returned>>
    /\ UNCHANGED <<phase, ensemble_model, scaler_fitted, explainer, memory_cache,
                   cache_ttl, now, background, response, trace, extractor, verdict,
                   requests>>

\* analyze_url on the instance a: the classification is made before
\* _analyze_security_risks may raise, and self.analysis_result is assigned
\* only when nothing raised
Called(a) ==
    [analyzer EXCEPT
        !.calls = @ + 1,
        !.raised = AnalyzerRaises(a),
        !.scheme_analysis = AnalyzeByScheme(a),
        !.self = IF AnalyzerRaises(a) THEN a
                 ELSE [a EXCEPT !.analysis_result = AnalyzerResult(a)]]

\* UniversalURLAnalyzer.analyze_url on the live instance
AnalyzerCall ==
    /\ analyzer # Idle
    /\ analyzer.calls < MaxCalls
    /\ analyzer' = Called(analyzer.self)
    /\ UNCHANGED <<semaphore, tasks, summary, validation>>
    /\ UNCHANGED <<scan_results, statistics, clock, returned>>
    /\ UNCHANGED <<phase, ensemble_model, scaler_fitted, explainer, memory_cache,
                   cache_ttl, now, background, response, trace, extractor, verdict,
                   requests>>

\* the extractor x after extract_all_features
Extracted(x) == [state |-> "done", self |-> x, features |-> extract_all_features(x)]

\* EnhancedFeatureExtraction(url, check_real_time).extract_all_features()
ExtractAllFeatures(url, check_real_time, page, whois, dns) ==
    /\ analyzer = Idle /\ extractor = Idle /\ verdict = Idle /\ validation = Idle
    /\ returned = NoReturn
    /\ extractor' = Extracted(NewExtractor(url, check_real_time, page, whois, dns))
    /\ UNCHANGED <<semaphore, tasks, summary, validation>>
    /\ UNCHANGED <<scan_results, statistics, clock, returned>>
    /\ UNCHANGED <<phase, ensemble_model, scaler_fitted, explainer, memory_cache,
                   cache_ttl, now, background, response, trace, analyzer, verdict,
                   requests>>

\* the risk scores given to URLScanResponse: the floats 0.00, 0.01, ... 1.00,
\* and no risk_score at all
NoScore == Frac(-1, 1)

RiskScores == {Frac(n, 100) : n \in 0..100} \cup {NoScore}

RiskLevels == {"low", "medium", "high", "critical"}

\* x >= p / q for a float x
AtLeast(x, p, q) == x.num * q >= p * x.den

\* a variant of determine_risk_level: the thresholds taken exclusively
determine_risk_level_exclusive(risk_score) ==
    IF ~ AtLeast(Frac(8, 10), risk_score.num, risk_score.den) THEN "critical"
    ELSE IF ~ AtLeast(Frac(6, 10), risk_score.num, risk_score.den) THEN "high"
    ELSE IF ~ AtLeast(Frac(4, 10), risk_score.num, risk_score.den) THEN "medium"
    ELSE "low"

\* URLScanResponse.determine_risk_level on a dictionary of values: the
\* value it stores under risk_level
determine_risk_level(risk_score) ==
    IF AtLeast(risk_score, 8, 10) THEN "critical"
    ELSE IF AtLeast(risk_score, 6, 10) THEN "high"
    ELSE IF AtLeast(risk_score, 4, 10) THEN "medium"
    ELSE "low"

\* URLScanResponse(risk_score=..., risk_level=..., ...): the validator runs
\* before the fields are validated, on values.get('risk_score', 0.5); the
\* required field risk_score missing, the construction then raises
ScanResponse(risk_score, risk_level) ==
    /\ analyzer = Idle /\ extractor = Idle /\ verdict = Idle /\ validation = Idle
    /\ returned = NoReturn
    /\ returned' =
         [op |-> "URLScanResponse", raised |-> (risk_score = NoScore),
          supplied |-> risk_level, risk_score |-> risk_score,
          risk_level |-> determine_risk_level(IF risk_score = NoScore THEN Frac(1, 2)
                                              ELSE risk_score)]
    /\ UNCHANGED <<scan_results, statistics, clock, semaphore, tasks, summary,
                   validation>>
    /\ UNCHANGED <<phase, ensemble_model, scaler_fitted, explainer, memory_cache,
                   cache_ttl, now, background, response, trace, analyzer, extractor,
                   verdict, requests>>

\* the answers of is_valid_url, of URLAnalysisRequest.validate_url and of
\* BulkURLRequest.validate_urls on a list of this one URL
Validated(url, p) ==
    [state |-> "done", url |-> url,
     scheme |-> IF p.raised THEN <<>> ELSE p.scheme,
     netloc |-> IF p.raised THEN <<>> ELSE p.netloc,
     is_valid_url |-> IsValidParsed(url, p),
     validate_url |-> ValidRequestUrl(url),
     validate_urls |-> ValidBulkRequest(<<url>>)]

\* the validators of the two request models on one URL
Validate(url) ==
    /\ analyzer = Idle /\ extractor = Idle /\ verdict = Idle /\ validation = Idle
    /\ returned = NoReturn
    /\ validation' = Validated(url, urlparse(url))
    /\ UNCHANGED <<scan_results, statistics, clock, returned>>
    /\ UNCHANGED <<phase, ensemble_model, scaler_fitted, explainer, memory_cache,
                   cache_ttl, now, background, response, trace, analyzer, extractor,
                   verdict, requests, semaphore, tasks, summary>>

\* the verdict v of a non-web URL of universal risk r with its risk score
Decided(bulk, r, v) ==
    [state |-> "done", bulk |-> bulk, universal_risk |-> r, result |-> v,
     risk_score |-> RiskScore(r, MlRisk(v.prediction, v.confidence))]

\* the non-web branch of analyze_url (bulk = FALSE) and of
\* analyze_single_url_internal (bulk = TRUE) on a universal risk r
DecideNonWeb(bulk, r) ==
    /\ analyzer = Idle /\ extractor = Idle /\ verdict = Idle /\ validation = Idle
    /\ returned = NoReturn
    /\ verdict' = Decided(bulk, r, IF bulk THEN BulkNonWebVerdict(r) ELSE NonWebVerdict(r))
    /\ UNCHANGED <<semaphore, tasks, summary, validation>>
    /\ UNCHANGED <<scan_results, statistics, clock, returned>>
    /\ UNCHANGED <<phase, ensemble_model, scaler_fitted, explainer, memory_cache,
                   cache_ttl, now, background, response, trace, analyzer, extractor,
                   requests>>

InitUnits ==
    /\ phase = "units"
    /\ ensemble_model = "None"
    /\ scaler_fitted = FALSE
    /\ explainer = FALSE
    /\ memory_cache = <<>>
    /\ cache_ttl = <<>>
    /\ now = 0
    /\ background = <<>>
    /\ response = NoResponse
    /\ trace = NoTrace
    /\ analyzer = Idle
    /\ extractor = Idle
    /\ verdict = Idle
    /\ requests = 0
    /\ semaphore = 0
    /\ tasks = <<>>
    /\ summary = NoSummary
    /\ validation = Idle
    /\ scan_results = <<>>
    /\ statistics = <<>>
    /\ clock = Midnight
    /\ returned = NoReturn

NextUnits ==
    \/ \E url \in Urls : Construct(url)
    \/ AnalyzerCall
    \/ \E url \in Urls, check_real_time \in BOOLEAN, page \in Pages, whois \in Whois,
          dns \in BOOLEAN :
           ExtractAllFeatures(url, check_real_time, page, whois, dns)
    \/ \E bulk \in BOOLEAN, r \in 0..MaxRisk : DecideNonWeb(bulk, r)
    \/ \E url \in ValidationUrls : Validate(url)
    \/ \E risk_score \in RiskScores, risk_level \in RiskLevels :
           ScanResponse(risk_score, risk_level)

SpecUnits == InitUnits /\ [][NextUnits]_vars

-----------------------------------------------------------------------------
(* database.py: a DatabaseManager after init_db *)

\* the number of save_scan_result calls
MaxSaves == 3

\* the last day the clock reaches, the first being day 0
MaxDay == 2

\* the last second of a day the clock reaches, the first being second 0
MaxSecond == 1

\* the scans that are saved: a URL, the verdict and the analysis time in
\* seconds, with one confidence and one risk score for all
Scans ==
    {[url |-> UrlHttps, is_phishing |-> FALSE, analysis_time |-> 1],
     [url |-> UrlHttpLogin, is_phishing |-> TRUE, analysis_time |-> 3],
     [url |-> UrlHttps, is_phishing |-> TRUE, analysis_time |-> 3]}

ScanConfidence == Frac(9, 10)

ScanRiskScore == Frac(1, 2)

\* the periods asked of get_statistics, in days, and the limits and offsets
\* asked of get_scan_history
PeriodDays == 0..1

Limits == 1..2

Offsets == 0..1

\* round(x * scale) for a float x = f.num / f.den that is no tie
Rounded(f, scale) == (2 * f.num * scale + f.den) \div (2 * f.den)

\* 1 if is_phishing else 0
Bit(b) == IF b THEN 1 ELSE 0

\* INSERT INTO scan_results: the row, its timestamp being CURRENT_TIMESTAMP,
\* which has the resolution of one second
ScanRow(url, is_phishing, analysis_time, timestamp) ==
    [url |-> url, is_phishing |-> is_phishing, confidence |-> ScanConfidence,
     risk_score |-> ScanRiskScore, analysis_time |-> analysis_time,
     timestamp |-> timestamp]

\* INSERT INTO statistics ... VALUES (?, 1, ?, ?, ?): the first scan of a date
Inserted(is_phishing, analysis_time) ==
    [total_scans |-> 1, phishing_detected |-> Bit(is_phishing),
     safe_urls |-> Bit(~ is_phishing), avg_analysis_time |-> Frac(analysis_time, 1)]

\* ON CONFLICT(date) DO UPDATE SET ...: every right-hand side reads the row
\* as it was before the update, total_scans included
Updated(row, is_phishing, analysis_time) ==
    [total_scans |-> row.total_scans + 1,
     phishing_detected |-> row.phishing_detected + Bit(is_phishing),
     safe_urls |-> row.safe_urls + Bit(~ is_phishing),
     avg_analysis_time |->
         Frac(row.avg_analysis_time.num * (row.total_scans - 1)
                  + analysis_time * row.avg_analysis_time.den,
              row.avg_analysis_time.den * row.total_scans)]

\* the statistics table after the upsert for the date today
Upsert(table, today, is_phishing, analysis_time) ==
    Put(table, today,
        IF today \in DOMAIN table
        THEN Updated(table[today], is_phishing, analysis_time)
        ELSE Inserted(is_phishing, analysis_time))

\* save_scan_result: both statements and the commit, or, when a statement
\* raises, the rollback and the exception.  The local date of
\* datetime.now() and the UTC date of CURRENT_TIMESTAMP are taken to agree.
SaveScanResult(url, is_phishing, analysis_time, raises) ==
    /\ phase = "database"
    /\ Len(scan_results) < MaxSaves
    /\ IF raises
       THEN /\ returned' = [op |-> "save_scan_result", raised |-> TRUE]
            /\ UNCHANGED <<scan_results, statistics>>
       ELSE /\ scan_results' = Append(scan_results,
                                      ScanRow(url, is_phishing, analysis_time, clock))
            /\ statistics' = Upsert(statistics, clock.day, is_phishing, analysis_time)
            /\ returned' = [op |-> "save_scan_result", raised |-> FALSE]
    /\ UNCHANGED <<clock, semaphore, tasks, summary, validation>>
    /\ UNCHANGED <<phase, ensemble_model, scaler_fitted, explainer, memory_cache,
                   cache_ttl, now, background, response, trace, analyzer, extractor,
                   verdict, requests>>

\* timestamp a is later than timestamp b
Later(a, b) == a.day > b.day \/ (a.day = b.day /\ a.second > b.second)

\* the orders ORDER BY timestamp DESC may give the rows: no row before a
\* later one, rows of the same second in any order
Orders(rows) ==
    {o \in Permutations(1..Len(rows)) :
        \A i, j \in 1..Len(rows) :
            i < j => ~ Later(rows[o[j]].timestamp, rows[o[i]].timestamp)}

\* LIMIT ? OFFSET ? over the ordered rows, as the dictionaries returned
Page(rows, o, limit, offset) ==
    SubSeq([i \in 1..Len(rows) |-> rows[o[i]]], offset + 1,
           Min(Len(rows), offset + limit))

\* get_scan_history(limit, offset); [] when the query raises
GetScanHistory(limit, offset, raises) ==
    /\ phase = "database"
    /\ \E o \in Orders(scan_results) :
         returned' = [op |-> "get_scan_history", raised |-> raises, limit |-> limit,
                      offset |-> offset,
                      rows |-> IF raises THEN <<>>
                               ELSE Page(scan_results, o, limit, offset)]
    /\ UNCHANGED <<scan_results, statistics, clock, semaphore, tasks, summary,
                   validation>>
    /\ UNCHANGED <<phase, ensemble_model, scaler_fitted, explainer, memory_cache,
                   cache_ttl, now, background, response, trace, analyzer, extractor,
                   verdict, requests>>

\* a variant of InPeriod: the first day of the period left out
InPeriodExclusive(day, today, days) == day > today - days

\* timestamp >= date('now', '-{} days'), date >= date('now', '-{} days'):
\* the strings compare as the days do
InPeriod(day, today, days) == day >= today - days

\* the sum of f[i] over the indices in S
RECURSIVE SumOver(_, _)
SumOver(f, S) ==
    IF S = {} THEN 0
    ELSE LET i == CHOOSE x \in S : TRUE IN f[i] + SumOver(f, S \ {i})

\* SUBSTR(url, INSTR(url, '://') + 3)
DomainText(url) == From(url, Find(url, <<":", "/", "/">>) + 3)

\* the first query of get_statistics over the rows S of the period, with the
\* rounding of the dictionary built from it
Overall(rows, S) ==
    [total_scans |-> Cardinality(S),
     phishing_detected |-> Cardinality({i \in S : rows[i].is_phishing}),
     safe_urls |-> Cardinality({i \in S : ~ rows[i].is_phishing}),
     avg_analysis_time |->
         IF S = {} THEN 0
         ELSE Rounded(Frac(SumOver([i \in S |-> rows[i].analysis_time], S),
                           Cardinality(S)), 1000),
     avg_confidence |->
         IF S = {} THEN 0
         ELSE Rounded(Frac(SumOver([i \in S |-> rows[i].confidence.num], S),
                           Cardinality(S) * ScanConfidence.den), 1000),
     detection_rate |->
         IF S = {} THEN 0
         ELSE Rounded(Frac(Cardinality({i \in S : rows[i].is_phishing}) * 100,
                           Cardinality(S)), 100)]

\* the second query: the rows of statistics of the period, by date
DailyStats(table, today, days) ==
    [d \in {x \in DOMAIN table : InPeriod(x, today, days)} |->
        [table[d] EXCEPT !.avg_analysis_time = Rounded(@, 1000)]]

\* the third query: the phishing rows of the period counted by domain
TopPhishing(rows, S) ==
    {[domain |-> DomainText(rows[i].url),
      count |-> Cardinality({j \in S : /\ rows[j].is_phishing
                                       /\ DomainText(rows[j].url) = DomainText(rows[i].url)})] :
        i \in {k \in S : rows[k].is_phishing}}

\* get_statistics(days); {"error": ...} when a query raises.  saved and
\* today record the table and the date the answer was computed from.
GetStatistics(days, raises) ==
    /\ phase = "database"
    /\ returned' =
         IF raises THEN [op |-> "get_statistics", raised |-> TRUE]
         ELSE [op |-> "get_statistics", raised |-> FALSE, period_days |-> days,
               saved |-> Len(scan_results), today |-> clock.day,
               overall |->
                   Overall(scan_results,
                           {i \in 1..Len(scan_results) :
                               InPeriod(scan_results[i].timestamp.day, clock.day, days)}),
               daily_stats |-> DailyStats(statistics, clock.day, days),
               top_phishing_domains |->
                   TopPhishing(scan_results,
                               {i \in 1..Len(scan_results) :
                                   InPeriod(scan_results[i].timestamp.day, clock.day, days)})]
    /\ UNCHANGED <<scan_results, statistics, clock, semaphore, tasks, summary,
                   validation>>
    /\ UNCHANGED <<phase, ensemble_model, scaler_fitted, explainer, memory_cache,
                   cache_ttl, now, background, response, trace, analyzer, extractor,
                   verdict, requests>>

\* a second passes
NextSecond ==
    /\ phase = "database"
    /\ clock.second < MaxSecond
    /\ clock' = [clock EXCEPT !.second = @ + 1]
    /\ UNCHANGED <<scan_results, statistics, returned, semaphore, tasks, summary,
                   validation>>
    /\ UNCHANGED <<phase, ensemble_model, scaler_fitted, explainer, memory_cache,
                   cache_ttl, now, background, response, trace, analyzer, extractor,
                   verdict, requests>>

\* the next day begins
NextDay ==
    /\ phase = "database"
    /\ clock.day < MaxDay
    /\ clock' = [day |-> clock.day + 1, second |-> 0]
    /\ UNCHANGED <<scan_results, statistics, returned, semaphore, tasks, summary,
                   validation>>
    /\ UNCHANGED <<phase, ensemble_model, scaler_fitted, explainer, memory_cache,
                   cache_ttl, now, background, response, trace, analyzer, extractor,
                   verdict, requests>>

InitDatabase ==
    /\ phase = "database"
    /\ ensemble_model = "None"
    /\ scaler_fitted = FALSE
    /\ explainer = FALSE
    /\ memory_cache = <<>>
    /\ cache_ttl = <<>>
    /\ now = 0
    /\ background = <<>>
    /\ response = NoResponse
    /\ trace = NoTrace
    /\ analyzer = Idle
    /\ extractor = Idle
    /\ verdict = Idle
    /\ requests = 0
    /\ semaphore = 0
    /\ tasks = <<>>
    /\ summary = NoSummary
    /\ validation = Idle
    /\ scan_results = <<>>
    /\ statistics = <<>>
    /\ clock = Midnight
    /\ returned = NoReturn

NextDatabase ==
    \/ \E scan \in Scans, raises \in BOOLEAN :
           SaveScanResult(scan.url, scan.is_phishing, scan.analysis_time, raises)
    \/ \E limit \in Limits, offset \in Offsets, raises \in BOOLEAN :
           GetScanHistory(limit, offset, raises)
    \/ \E days \in PeriodDays, raises \in BOOLEAN : GetStatistics(days, raises)
    \/ NextSecond
    \/ NextDay

SpecDatabase == InitDatabase /\ [][NextDatabase]_vars

-----------------------------------------------------------------------------
(* get_cache and set_cache on their own, without a Redis client *)

\* the last second time.time() reaches
MaxNow == 3

\* the keys, the values and the times to live, in seconds, that are set
CacheKeys == {get_cache_key(UrlHttps, TRUE), get_cache_key(UrlHttps, FALSE)}

CacheValues == {"json_1", "json_2"}

Ttls == 0..2

\* set_cache(key, value, ttl) with redis_client None
set_cache(key, value, ttl) ==
    /\ phase = "cache"
    /\ memory_cache' = Put(memory_cache, key, value)
    /\ cache_ttl' = Put(cache_ttl, key, now + ttl)
    /\ trace' = Put(trace, key, [value |-> value, at |-> now, ttl |-> ttl])
    /\ returned' = [op |-> "set_cache", key |-> key]
    /\ UNCHANGED <<scan_results, statistics, clock, semaphore, tasks, summary,
                   validation>>
    /\ UNCHANGED <<phase, ensemble_model, scaler_fitted, explainer, now, background,
                   response, analyzer, extractor, verdict, requests>>

\* get_cache(key) with redis_client None: the value, or None after the
\* entry of an expired key has been popped from both dictionaries
get_cache(key) ==
    /\ phase = "cache"
    /\ IF CacheHit(key)
       THEN /\ returned' = [op |-> "get_cache", key |-> key, at |-> now,
                            value |-> memory_cache[key]]
            /\ UNCHANGED <<memory_cache, cache_ttl>>
       ELSE /\ returned' = [op |-> "get_cache", key |-> key, at |-> now,
                            value |-> "None"]
            /\ memory_cache' = IF key \in DOMAIN memory_cache
                               THEN Pop(memory_cache, key) ELSE memory_cache
            /\ cache_ttl' = IF key \in DOMAIN memory_cache
                            THEN Pop(cache_ttl, key) ELSE cache_ttl
    /\ UNCHANGED <<scan_results, statistics, clock, semaphore, tasks, summary,
                   validation>>
    /\ UNCHANGED <<phase, ensemble_model, scaler_fitted, explainer, now, background,
                   response, trace, analyzer, extractor, verdict, requests>>

\* time.time() advances by a second
Sleep ==
    /\ phase = "cache"
    /\ now < MaxNow
    /\ now' = now + 1
    /\ UNCHANGED <<scan_results, statistics, clock, returned, semaphore, tasks,
                   summary, validation>>
    /\ UNCHANGED <<phase, ensemble_model, scaler_fitted, explainer, memory_cache,
                   cache_ttl, background, response, trace, analyzer, extractor,
                   verdict, requests>>

InitMemoryCache ==
    /\ phase = "cache"
    /\ ensemble_model = "None"
    /\ scaler_fitted = FALSE
    /\ explainer = FALSE
    /\ memory_cache = <<>>
    /\ cache_ttl = <<>>
    /\ now = 0
    /\ background = <<>>
    /\ response = NoResponse
    /\ trace = <<>>
    /\ analyzer = Idle
    /\ extractor = Idle
    /\ verdict = Idle
    /\ requests = 0
    /\ semaphore = 0
    /\ tasks = <<>>
    /\ summary = NoSummary
    /\ validation = Idle
    /\ scan_results = <<>>
    /\ statistics = <<>>
    /\ clock = Midnight
    /\ returned = NoReturn

NextMemoryCache ==
    \/ \E key \in CacheKeys, value \in CacheValues, ttl \in Ttls :
           set_cache(key, value, ttl)
    \/ \E key \in CacheKeys : get_cache(key)
    \/ Sleep

SpecMemoryCache == InitMemoryCache /\ [][NextMemoryCache]_vars

-----------------------------------------------------------------------------
(* Properties *)

\* the request got a verdict: a response built by the analysis, not a
\* rejection, an HTTP error, a cached response or the bulk error default
GotVerdict == trace.outcome = "analyzed"

\* the gate of the ML branch let the URL of the last request through
WebRequest == trace.url \in Urls /\ Analyzed[trace.url].url_category = "web"

\* C1: the risk_score of every response that carries one (an analysis of
\* either endpoint, a cached response, the default response of a bulk error)
\* is an integer from 0 to 100.
C1_RiskScoreInRange ==
    response.status = "ok" => response.risk_score \in 0..MaxRisk

\* C1 witness: a response of an analysis whose risk score is the upper limit
C1_Witness ==
    /\ GotVerdict
    /\ response.status = "ok"
    /\ response.risk_score = MaxRisk

\* C2: extract_all_features returns exactly 30 values, each -1, 0 or 1,
\* whatever the URL, the fetched page and the lookups, the raising check
\* included.
C2_ThirtyTernaryFeatures ==
    extractor # Idle =>
        /\ Len(extractor.features) = 30
        /\ \A i \in 1..Len(extractor.features) : extractor.features[i] \in {-1, 0, 1}

\* C2 witness: a vector returned although a check raised, and one returned
\* for a host with more than two dots
C2_Witness ==
    /\ extractor # Idle
    /\ \/ non_std_port_raises(extractor.self)
       \/ Count(extractor.self.domain, ".") > 2

\* C3: when the predictor returns, the label -1 is reported as "phishing"
\* and the label +1 as "safe", by POST /analyze and by the bulk analysis.
C3_LabelToPrediction ==
    trace.ml_returned =>
        /\ trace.ml_label = -1 => response.prediction = "phishing"
        /\ trace.ml_label = 1 => response.prediction = "safe"

\* C3 witness: the bulk analysis reported a label -1 as phishing
C3_Witness ==
    /\ trace.endpoint = "bulk"
    /\ trace.ml_returned
    /\ trace.ml_label = -1
    /\ response.prediction = "phishing"

\* the probability of the phishing class a response stands for, as the
\* numerator over response.confidence.den
PhishingNum == IF response.prediction = "phishing" THEN response.confidence.num
               ELSE response.confidence.den - response.confidence.num

\* the phishing probability as a percentage, rounded to the nearest integer
RoundedMlRisk == (PhishingNum * 200 + response.confidence.den) \div (2 * response.confidence.den)

\* the phishing probability as a percentage, truncated toward zero
TruncatedMlRisk == (PhishingNum * 100) \div response.confidence.den

\* the larger of two numbers
Max(x, y) == IF x > y THEN x ELSE y

\* C4 as stated: for a web URL the risk score is min(100, max(base, ML risk))
\* with the ML risk rounded to the nearest integer.
C4_RoundedWebRisk ==
    (GotVerdict /\ WebRequest) =>
        response.risk_score = Min(MaxRisk, Max(trace.universal_risk, RoundedMlRisk))

\* C4 amended: for a web URL the risk score is min(100, max(base, ML risk))
\* with the ML risk truncated toward zero.
C4_TruncatedWebRisk ==
    (GotVerdict /\ WebRequest) =>
        response.risk_score = Min(MaxRisk, Max(trace.universal_risk, TruncatedMlRisk))

\* C4 witness: a web verdict from the predictor whose score is the truncated
\* percentage where rounding gives another number
C4_Witness ==
    /\ GotVerdict /\ WebRequest
    /\ trace.ml_returned
    /\ TruncatedMlRisk # RoundedMlRisk
    /\ TruncatedMlRisk > trace.universal_risk
    /\ response.risk_score = TruncatedMlRisk

\* C5 as stated: the universal risk a non-web verdict is derived from is
\* min(100, base + security score + 10 * pattern count), base being 40, 20
\* or 5 for the scheme's risk level.
C5_UniversalRiskIsSum ==
    (GotVerdict /\ ~ WebRequest) =>
        trace.universal_risk =
            Min(MaxRisk,
                SchemeRisk(Analyzed[trace.url].universal_analysis.scheme_analysis.base_risk_level)
                + Analyzed[trace.url].universal_analysis.security_analysis.risk_score
                + 10 * Analyzed[trace.url].universal_analysis.pattern_analysis.pattern_count)

\* C6: a non-web URL of universal risk r is "phishing" with confidence r/100
\* when r > 70, "suspicious" with confidence 0.6 when 40 < r <= 70, and
\* "safe" with confidence 1 - r/100 when r <= 40, in POST /analyze and in the
\* bulk analysis alike.
C6_NonWebThresholds ==
    verdict # Idle =>
        /\ verdict.universal_risk > 70 =>
              /\ verdict.result.prediction = "phishing"
              /\ verdict.result.confidence = Frac(verdict.universal_risk, 100)
        /\ (verdict.universal_risk > 40 /\ verdict.universal_risk <= 70) =>
              /\ verdict.result.prediction = "suspicious"
              /\ verdict.result.confidence = Frac(60, 100)
        /\ verdict.universal_risk <= 40 =>
              /\ verdict.result.prediction = "safe"
              /\ verdict.result.confidence = Frac(100 - verdict.universal_risk, 100)

\* C6 witness: the bulk analysis kept the risk 70 itself suspicious
C6_Witness ==
    /\ verdict # Idle
    /\ verdict.bulk
    /\ verdict.universal_risk = 70
    /\ verdict.result.prediction = "suspicious"

\* C7 as stated: an ML prediction is attempted exactly when the scheme
\* classification of the URL has the category "web".
C7_MlIffWebScheme ==
    GotVerdict => (trace.ml_attempted <=> trace.scheme_category = "web")

\* C8 as stated: without a model the analysis of a web URL fails, and a
\* non-web URL still gets a verdict.
C8_NoModelFailsWeb ==
    (ensemble_model = "None" /\ trace.outcome \in {"analyzed", "http500", "error"}) =>
        IF WebRequest
        THEN response.prediction \notin {"safe", "suspicious", "phishing"}
        ELSE response.prediction \in {"safe", "suspicious", "phishing"}

\* the scheme urlparse finds in the URL of the live analyzer, "" when it
\* raises or finds none
ParsedScheme ==
    IF urlparse(analyzer.self.original_url).raised THEN <<>>
    ELSE urlparse(analyzer.self.original_url).scheme

\* C9: the classification analyze_url makes, whether or not a later step
\* raises, is an entry of URL_SCHEMES, and it is unknown with high risk for
\* every URL whose scheme is no key of the table, is missing or does not
\* parse.
C9_SchemeClassification ==
    (analyzer # Idle /\ analyzer.calls > 0) =>
        /\ \E i \in 1..Len(URL_SCHEMES) :
              /\ URL_SCHEMES[i].category = analyzer.scheme_analysis.category
              /\ URL_SCHEMES[i].risk_level = analyzer.scheme_analysis.base_risk_level
        /\ ParsedScheme \notin SchemeKeys =>
              /\ analyzer.scheme_analysis.category = "unknown"
              /\ analyzer.scheme_analysis.base_risk_level = "high"

\* C9 witness: a URL whose scheme is no key of the table was classified
C9_Witness ==
    /\ analyzer # Idle /\ analyzer.calls > 0
    /\ ParsedScheme # <<>>
    /\ ParsedScheme \notin SchemeKeys
    /\ analyzer.scheme_analysis.category = "unknown"

\* C10 as stated: when one check raises, only its position is replaced by
\* the default and every other position keeps the value its check computes.
C10_RaisingCheckIsolated ==
    (extractor # Idle /\ non_std_port_raises(extractor.self)) =>
        \A i \in (1..30) \ {11} : extractor.features[i] = CheckAt(i, extractor.self)
\* the positions whose checks read the fetched page, the WHOIS record or the
\* DNS answers
DataPositions == {9, 10, 13, 14, 15, 16, 17, 18, 20, 21, 22, 23, 24, 25, 29}

\* the extractor obtained no page, no WHOIS record and no DNS answer
NoData ==
    /\ extractor # Idle
    /\ extractor.self.page = NoPage
    /\ ~ extractor.self.whois_info.present
    /\ ~ extractor.self.dns_info

\* C11 as stated: when the page, the WHOIS record and the DNS answers are
\* all unavailable, no position that depends on them is -1.
C11_MissingDataDefaults ==
    NoData => \A i \in DataPositions : extractor.features[i] \in {0, 1}

\* C12 as stated: for the schemeless string "not a url", with nothing
\* fetched and nothing looked up, extract_all_features returns thirty 1s.
C12_MalformedGivesDefault ==
    (NoData /\ extractor.self.url = UrlNoScheme) =>
        extractor.features = DefaultFeatures
\* C14: every answer of POST /analyze that carries an explanation, whether
\* recomputed or served from the cache, carries the pattern matches, the
\* scheme and the two category classifications that the analyzer computes
\* from the requested URL alone; two analyses of one URL therefore agree on
\* them.
C14_SameTagsAndClassification ==
    (trace.outcome \in {"analyzed", "cache_hit"} /\ response.explained) =>
        /\ response.url = trace.url
        /\ response.suspicious_patterns =
               MatchedFrom(1, Lower(trace.url))
        /\ response.scheme = AnalyzerScheme(trace.url)
        /\ response.category = SchemeInfo(AnalyzerScheme(trace.url)).category
        /\ response.explained_category = detect_url_category(trace.url)

\* C14 witness: the second request for a URL with pattern matches was
\* answered from the cache
C14_Witness ==
    /\ requests = 2
    /\ trace.outcome = "cache_hit"
    /\ response.explained
    /\ response.suspicious_patterns # <<>>
\* C13: while a bulk request is processed, at most 5 analyses are between
\* entering and leaving the semaphore, the semaphore counts the free slots,
\* and a task that has not entered stays out while no slot is free.
C13_AtMostFiveInFlight ==
    tasks # <<>> =>
        /\ Cardinality(InFlight) <= 5
        /\ semaphore = 5 - Cardinality(InFlight)
        /\ semaphore >= 0

\* C13 witness: five analyses in flight and a sixth task waiting
C13_Witness ==
    /\ Cardinality(InFlight) = 5
    /\ \E i \in 1..Len(tasks) : tasks[i].pc = "created"
\* the value of the method of the extractor x that is named "_" followed by
\* name
CheckNamed(name, x) ==
    CASE name = "using_ip" -> using_ip(x)
      [] name = "long_url" -> long_url(x)
      [] name = "short_url" -> short_url(x)
      [] name = "symbol" -> symbol(x)
      [] name = "redirecting" -> redirecting(x)
      [] name = "prefix_suffix" -> prefix_suffix(x)
      [] name = "sub_domains" -> sub_domains(x)
      [] name = "https" -> https(x)
      [] name = "domain_reg_len" -> domain_reg_len(x)
      [] name = "favicon" -> favicon(x)
      [] name = "non_std_port" -> non_std_port(x)
      [] name = "https_domain_url" -> https_domain_url(x)
      [] name = "request_url" -> request_url(x)
      [] name = "anchor_url" -> anchor_url(x)
      [] name = "links_in_script_tags" -> links_in_script_tags(x)
      [] name = "server_form_handler" -> server_form_handler(x)
      [] name = "info_email" -> info_email(x)
      [] name = "abnormal_url" -> abnormal_url(x)
      [] name = "website_forwarding" -> website_forwarding(x)
      [] name = "status_bar_cust" -> status_bar_cust(x)
      [] name = "disable_right_click" -> disable_right_click(x)
      [] name = "using_popup_window" -> using_popup_window(x)
      [] name = "iframe_redirection" -> iframe_redirection(x)
      [] name = "age_of_domain" -> age_of_domain(x)
      [] name = "dns_recording" -> dns_recording(x)
      [] name = "website_traffic" -> website_traffic(x)
      [] name = "page_rank" -> page_rank(x)
      [] name = "google_index" -> google_index(x)
      [] name = "links_pointing_to_page" -> links_pointing_to_page(x)
      [] name = "stats_report" -> stats_report(x)

BrandPatterns == {k \in 1..NumPatterns : PatternMatches(k, <<"p", "a", "y", "p", "a", "l">>)}

\* the patterns that report a suspicious top-level domain: those that match
\* a host in .tk
TldPatterns == {k \in 1..NumPatterns : PatternMatches(k, <<"a", ".", "t", "k">>)}

\* C16 as stated: the analysis of http://paypal-secure-login.tk/verify
\* reports a suspicious-TLD match and a brand-keyword match, and its verdict
\* is "phishing" or "suspicious" whether or not the predictor returned.
C16_BrandUrlFlagged ==
    (GotVerdict /\ trace.url = UrlPaypal /\ response.explained) =>
        /\ \E k \in TldPatterns : k \in Range(response.suspicious_patterns)
        /\ \E k \in BrandPatterns : k \in Range(response.suspicious_patterns)
        /\ response.prediction \in {"phishing", "suspicious"}
\* C17: is_valid_url and the validators of both request models refuse the
\* empty string, every string longer than 2000 characters and every string
\* in which urlparse finds no scheme, so that no handler runs for it; they
\* accept a URL of exactly 2000 characters that has a scheme and a location.
C17_InvalidNeverAnalyzed ==
    validation # Idle =>
        /\ (\/ validation.url = <<>>
            \/ Len(validation.url) > 2000
            \/ validation.scheme = <<>>) =>
               /\ ~ validation.is_valid_url
               /\ ~ validation.validate_url
               /\ ~ validation.validate_urls
        /\ (/\ Len(validation.url) = 2000
            /\ validation.scheme # <<>>
            /\ validation.netloc # <<>>) =>
               /\ validation.is_valid_url
               /\ validation.validate_url
               /\ validation.validate_urls

\* C17 witness: a URL of exactly 2000 characters was accepted
C17_Witness ==
    /\ validation # Idle
    /\ Len(validation.url) = 2000
    /\ validation.validate_url
    /\ validation.validate_urls
\* C18 as stated: a prediction attempted by a handler fails exactly when no
\* model has been installed; with a model installed by load_model or by the
\* fallback of lifespan, predict returns a label and probabilities.
C18_PredictIffModelInstalled ==
    (GotVerdict /\ trace.ml_attempted) =>
        (trace.ml_returned <=> ensemble_model # "None")
\* C19: whenever POST /analyze asks for an explanation after a prediction,
\* explain_prediction returns either the contributions or an explicit error
\* result, the error result when there is no explainer, and the prediction,
\* the confidence and the risk score of the response are those that follow
\* from the predictor's label and probability and the universal risk alone,
\* whatever the explanation came to.
C19_ExplanationNeverFails ==
    (GotVerdict /\ trace.endpoint = "single" /\ trace.ml_returned /\ response.explained) =>
        /\ response.ml_explanation \in {"error", "contributions"}
        /\ ~ explainer => response.ml_explanation = "error"
        /\ response.prediction = PredictionOf(trace.ml_label)
        /\ response.confidence.den = ProbDen
        /\ 2 * response.confidence.num >= ProbDen
        /\ response.risk_score =
               RiskScore(trace.universal_risk,
                         MlRisk(response.prediction, response.confidence))

\* C19 witness: the attribution computation failed with an explainer present
\* and the response still carries the predictor's phishing verdict
C19_Witness ==
    /\ GotVerdict /\ trace.endpoint = "single" /\ trace.ml_returned
    /\ explainer
    /\ response.ml_explanation = "error"
    /\ response.prediction = "phishing"
    /\ response.confidence.num = ProbDen - 1
\* the host of a netloc as urlparse(...).hostname gives it: what follows the
\* userinfo, without the brackets of an IPv6 literal and without the port
HostOf(netloc) ==
    LET hostinfo == AfterLast(netloc, "@")
    IN IF hostinfo # <<>> /\ hostinfo[1] = "["
       THEN BeforeFirst(Tail(hostinfo), "]")
       ELSE BeforeFirst(hostinfo, ":")

\* C20 as stated: in the list extract_all_features builds, position 1 is -1
\* exactly when the host of the URL is an IPv4 or IPv6 literal, and 1
\* otherwise, with or without a port.
C20_UsingIpIffIpHost ==
    (extractor # Idle /\ ~ non_std_port_raises(extractor.self)) =>
        /\ extractor.features[1] \in {-1, 1}
        /\ extractor.features[1] = -1 <=> IsIPAddress(HostOf(extractor.self.domain))

\* C21 as stated: position 8 of the list extract_all_features builds (https)
\* is 1 exactly when the scheme classifier, which lowers the scheme, gives
\* https for the URL, and -1 otherwise.
C21_HttpsAgreesWithScheme ==
    (extractor # Idle /\ ~ non_std_port_raises(extractor.self)) =>
        /\ extractor.features[8] \in {-1, 1}
        /\ extractor.features[8] = 1 <=> AnalyzerScheme(extractor.self.url) = Str_https

\* the value the claim gives feature 7 for a host with this many dots
SubDomainsAsStated(dots, value) ==
    /\ dots = 1 => value = 1
    /\ dots = 2 => value = 0
    /\ value = -1 <=> dots > 2

\* C22 as stated: position 7 of the list extract_all_features builds
\* (sub_domains) is 1 for a host with one dot, 0 for a host with two dots and
\* -1 if and only if the host has more than two dots.
C22_SubDomainsByDots ==
    (extractor # Idle /\ ~ non_std_port_raises(extractor.self)) =>
        SubDomainsAsStated(Count(HostOf(extractor.self.domain), "."),
                           extractor.features[7])

\* the saved scans with this value of is_phishing among the rows S
SavedAs(is_phishing, S) == {i \in S : scan_results[i].is_phishing = is_phishing}

\* the saved scans whose day is one of the days most recent days or today
SavedInPeriod(today, days) ==
    {i \in 1..Len(scan_results) : scan_results[i].timestamp.day + days >= today}

\* the counts of overall are those of the rows S
CountsOf(overall, S) ==
    /\ overall.total_scans = Cardinality(S)
    /\ overall.phishing_detected = Cardinality(SavedAs(TRUE, S))
    /\ overall.safe_urls = Cardinality(SavedAs(FALSE, S))
    /\ overall.total_scans = overall.phishing_detected + overall.safe_urls

\* C23 as stated: after any successful saves, get_statistics reports in
\* overall the number of saved scans, the number saved as phishing and the
\* number saved as safe, which add up to the total.
C23_CountsAllSaved ==
    (returned.op = "get_statistics" /\ ~ returned.raised) =>
        CountsOf(returned.overall, 1..Len(scan_results))

\* C23: get_statistics(days) reports in overall the number of scans saved
\* today or on the days preceding days, the number of those saved as phishing
\* and the number of those saved as safe, which add up to the total; a scan
\* saved earlier is not counted.
C23_CountsSavedInPeriod ==
    (returned.op = "get_statistics" /\ ~ returned.raised) =>
        CountsOf(returned.overall, SavedInPeriod(returned.today, returned.period_days))

\* statistics asked when a scan has left the period and a phishing and a
\* safe scan are in it
C23_Witness ==
    /\ returned.op = "get_statistics" /\ ~ returned.raised
    /\ returned.saved = Len(scan_results)
    /\ SavedInPeriod(returned.today, returned.period_days) # 1..Len(scan_results)
    /\ SavedAs(TRUE, SavedInPeriod(returned.today, returned.period_days)) # {}
    /\ SavedAs(FALSE, SavedInPeriod(returned.today, returned.period_days)) # {}

\* C24 as stated: get_scan_history(limit=n) returns the n most recently
\* saved scans, newest first, so after a save get_scan_history(limit=1)
\* returns the scan just saved, however shortly it follows another.
C24_HistoryNewestFirst ==
    (returned.op = "get_scan_history" /\ ~ returned.raised /\ returned.offset = 0) =>
        /\ Len(returned.rows) = Min(returned.limit, Len(scan_results))
        /\ \A k \in 1..Len(returned.rows) :
               returned.rows[k] = scan_results[Len(scan_results) - k + 1]

\* the scans saved on this day
SavedOn(day) == {i \in 1..Len(scan_results) : scan_results[i].timestamp.day = day}

\* the float avg is the arithmetic mean of the analysis times of the rows S
IsMeanOf(avg, S) ==
    avg.num * Cardinality(S)
        = SumOver([i \in S |-> scan_results[i].analysis_time], S) * avg.den

\* C30 as stated: after any saves on one day, that day's row of statistics
\* has total_scans equal to the number of scans saved that day and
\* avg_analysis_time equal to the arithmetic mean of their analysis times.
C30_DailyRowIsCountAndMean ==
    \A day \in DOMAIN statistics :
        /\ statistics[day].total_scans = Cardinality(SavedOn(day))
        /\ IsMeanOf(statistics[day].avg_analysis_time, SavedOn(day))

\* C25: the risk_level of a URLScanResponse is critical for a risk_score of
\* at least 0.8, high from 0.6 and below 0.8, medium from 0.4 and below 0.6
\* and low otherwise, whatever risk_level the caller supplied.
C25_RiskLevelFromScore ==
    (returned.op = "URLScanResponse" /\ ~ returned.raised) =>
        returned.risk_level =
            CASE returned.risk_score.num * 10 >= 8 * returned.risk_score.den -> "critical"
              [] /\ returned.risk_score.num * 10 >= 6 * returned.risk_score.den
                 /\ returned.risk_score.num * 10 < 8 * returned.risk_score.den -> "high"
              [] /\ returned.risk_score.num * 10 >= 4 * returned.risk_score.den
                 /\ returned.risk_score.num * 10 < 6 * returned.risk_score.den -> "medium"
              [] OTHER -> "low"

\* a response built with risk_score 0.8 and risk_level low is critical
C25_Witness ==
    /\ returned.op = "URLScanResponse" /\ ~ returned.raised
    /\ returned.risk_score = Frac(80, 100)
    /\ returned.supplied = "low"
    /\ returned.risk_level = "critical"

\* C26 as stated: a call of analyze_url on an analyzer instance that was
\* called before returns the overall_risk_score and the recommendations the
\* earlier call returned.
C26_RepeatedCallsAgree ==
    [][(/\ analyzer # Idle
        /\ analyzer' # Idle
        /\ analyzer.calls >= 1
        /\ analyzer'.calls = analyzer.calls + 1
        /\ ~ analyzer.raised
        /\ ~ analyzer'.raised) =>
           /\ analyzer'.self.analysis_result.overall_risk_score
                  = analyzer.self.analysis_result.overall_risk_score
           /\ analyzer'.self.analysis_result.recommendations
                  = analyzer.self.analysis_result.recommendations]_vars

\* C27: with the in-memory cache, get_cache(k) returns the value last set
\* for k exactly when the time to live of that set_cache has not elapsed and
\* returns None otherwise; a key found expired is in neither dictionary
\* afterwards, and memory_cache and cache_ttl always have the same keys.
C27_MemoryCacheTtl ==
    /\ DOMAIN memory_cache = DOMAIN cache_ttl
    /\ returned.op = "get_cache" =>
         /\ returned.value =
                IF /\ returned.key \in DOMAIN trace
                   /\ returned.at - trace[returned.key].at < trace[returned.key].ttl
                THEN trace[returned.key].value
                ELSE "None"
         /\ returned.value = "None" =>
                /\ returned.key \notin DOMAIN memory_cache
                /\ returned.key \notin DOMAIN cache_ttl

\* get_cache returned None for a key whose time to live had just elapsed,
\* while the other key is still cached
C27_Witness ==
    /\ returned.op = "get_cache"
    /\ returned.value = "None"
    /\ returned.key \in DOMAIN trace
    /\ trace[returned.key].ttl > 0
    /\ returned.at = trace[returned.key].at + trace[returned.key].ttl
    /\ returned.key \notin DOMAIN memory_cache
    /\ DOMAIN memory_cache # {}

\* C28 as stated: a response served from the cache was built for a request
\* with the same url, the same deep_analysis and the same check_real_time as
\* the request it is served to.
C28_CacheHitSameOptions ==
    trace.outcome = "cache_hit" =>
        /\ response.url = trace.url
        /\ response.options.deep_analysis = trace.options.deep_analysis
        /\ response.options.check_real_time = trace.options.check_real_time

\* the tasks whose analysis ends in an exception
FailedTasks == {i \in 1..Len(tasks) : Analyzed[tasks[i].url].raises}

\* C29 as stated: in the summary analyze_bulk_urls builds when its tasks are
\* gathered, total = analyzed + errors, errors counts every URL whose
\* analysis failed with an exception, and analyzed counts none of them.
C29_FailedCountedAsErrors ==
    [][(tasks # <<>> /\ tasks' = <<>>) =>
           /\ summary'.total = summary'.analyzed + summary'.errors
           /\ summary'.errors = Cardinality(FailedTasks)
           /\ summary'.analyzed = Len(tasks) - Cardinality(FailedTasks)]_vars

====
